---- MODULE Spec2Model ----
(***************************************************************************)
(* State-machine model of the pump.fun signal-and-position engine:         *)
(* SignalEngine (orchestrator), TokenRegistry / TokenTracker,              *)
(* MultiWindowBuffer, the filter / signal / scoring stages, EntryEngine,   *)
(* ExitEngine, KillSwitch and PositionManager.                             *)
(*                                                                         *)
(* Units.  Time is in milliseconds, as in the source.  Amounts and prices  *)
(* are in hundredths of a SOL (0.03 SOL = 3), so that every threshold of   *)
(* CONFIG is an integer.  Quotients (average buy size, prices, PnL) are    *)
(* exact rationals <<numerator, denominator>> in lowest terms; the         *)
(* standard deviation is carried as its square (the population variance)   *)
(* and compared against squared thresholds.                                *)
(***************************************************************************)
EXTENDS Integers, Sequences, FiniteSets, TLC

VARIABLES
    now,              \* Date.now()
    trackers,         \* TokenRegistry.trackers : token -> TokenTracker
    positions,        \* PositionManager.positions : id -> PaperPosition
    closedPositions,  \* PositionManager.closedPositions (archive)
    tokenToPosition,  \* PositionManager.tokenToPosition : token -> id
    exitStates,       \* ExitEngine.exitStates : id -> ExitState
    killStates,       \* KillSwitch.states : id -> KillState
    nextPositionId,   \* ids handed out by generatePositionId so far
    processedTxCount, \* SignalEngine.processedTxCount
    eventLog,         \* every events.emit, in order
    scoreTickDue,     \* the score interval (10 s) has elapsed, callback pending
    cleanupDue,       \* the registry interval (30 s) has elapsed, callback pending
    burstsDone,       \* crowd blocks delivered so far
    lastTxEventAt,    \* token -> time of its latest 'transaction' event
    lastTx,           \* the latest 'transaction' event the feed delivered
    firstRecordedBuyer, \* token -> buyer of the first transaction recorded for it
    script,           \* the feed's script: "free", or the name of a scripted run
    call,             \* the latest direct call of a component's method
    timers            \* SignalEngine.isRunning and the interval timers

vars == <<now, trackers, positions, closedPositions, tokenToPosition, exitStates,
          killStates, nextPositionId, processedTxCount, eventLog, scoreTickDue,
          cleanupDue, burstsDone, lastTxEventAt, lastTx, firstRecordedBuyer, script,
          call, timers>>

-----------------------------------------------------------------------------
(* Bounds of the model                                                     *)

\* single 'transaction' events delivered by the feed
MaxTx == 4
\* single 'transaction' events delivered before the first position is opened
MaxTxBeforeEntry == 3
\* single 'transaction' events delivered before the crowd block
MaxTxBeforeBurst == 1
\* crowd blocks delivered by the feed
MaxBursts == 1
\* the clock quantum at which the crowd block arrives
BurstQuantum == 9
\* transactions in one crowd block (distinct wallets, one block time)
CrowdSize == 200
\* clock quanta (of recalcIntervalMs) the model runs for
MaxQuanta == 19
\* wallets that send single transactions
NumWallets == 2

Tokens == {"T1"}
Wallets == 1..NumWallets
\* wallets of a crowd block: disjoint from Wallets
CrowdWallet(i) == 1000 + i
\* amounts (1/100 SOL) of single transactions: 0.5 SOL and 3.5 SOL
Amounts == {50, 350}
\* amount of every crowd transaction: 0.5 SOL
CrowdAmount == 50

-----------------------------------------------------------------------------
(* CONFIG                                                                  *)

maxTokenAgeMinutes == 20
minBuyersAfter5Min == 2
windows_short == 30000
windows_medium == 60000
windows_long == 180000
windows_buyers == 300000
filters_maxLargestBuy == 200
filters_maxAvgBuySize == 80
filters_minAvgBuySize == 3
filters_maxDevBuys == 1
filters_maxMetadataEdits == 1
signals_minBuyers5m == 6
signals_maxTxIntervalMean == 20
signals_minAvgBuySize == 5
signals_maxAvgBuySize == 50
signals_maxLargestBuy == 200
signals_minTxCount60s == 5
entry_minScore == 18
entry_minTokenAgeMinutes == 2
entry_maxTokenAgeMinutes == 12
entry_minMarketCapSOL == 300000
entry_maxMarketCapSOL == 1500000
entry_positionSizeSOL == 100
exit_partialProfitPercent == 120
exit_fullProfitPercent == 220
exit_partialExitPercent == 50
exit_noActivitySeconds == 60
exit_txDecreaseThreshold == 2
killSwitch_noTxSeconds == 60
killSwitch_whaleBuyThreshold == 300
scoring_buyersWeight == 2
scoring_accelerationWeight == 3
scoring_repeatBuyersWeight == 2
scoring_largestBuyPenalty == 5
scoring_stagnationPenalty == 10
scoring_recalcIntervalMs == 10000
cleanupIntervalMs == 30000
statusIntervalMs == 30000
\* evaluateFilters: stdThreshold = 0.5 SOL, squared, in (1/100 SOL)^2
stdThresholdSq == 2500
\* evaluateSignals: "LOW" threshold 0.3 SOL, squared, in (1/100 SOL)^2
lsfStdThresholdSq == 900
\* calculateScore: largestBuy > 1.0 SOL
scoreLargestBuyCeiling == 100
\* calculateMetrics: countRange(120000, 60000)
prevWindowStartMsAgo == 120000
prevWindowEndMsAgo == 60000
\* estimateMarketCap: multiplier = 30
marketCapMultiplier == 30
\* shouldDropInactivity: getAgeMinutes() >= 5
inactivityDropMinutes == 5
msPerMinute == 60000

-----------------------------------------------------------------------------
(* Exact rational arithmetic                                               *)

Abs(x) == IF x < 0 THEN -x ELSE x

RECURSIVE Gcd(_, _)
Gcd(a, b) == IF b = 0 THEN a ELSE Gcd(b, a % b)

\* n/d in lowest terms, d > 0
Rat(n, d) ==
    LET g == Gcd(Abs(n), Abs(d))
        s == IF d < 0 THEN -1 ELSE 1
    IN  <<(s * n) \div g, (s * d) \div g>>

RatInt(n) == <<n, 1>>
RatLt(a, b) == a[1] * b[2] < b[1] * a[2]
RatLeq(a, b) == a[1] * b[2] <= b[1] * a[2]
RatAdd(a, b) ==
    LET g == Gcd(a[2], b[2])
    IN  Rat(a[1] * (b[2] \div g) + b[1] * (a[2] \div g), (a[2] \div g) * b[2])
RatSub(a, b) == RatAdd(a, <<-b[1], b[2]>>)
RatMul(a, b) ==
    LET g1 == Gcd(Abs(a[1]), b[2])
        g2 == Gcd(Abs(b[1]), a[2])
        h1 == IF g1 = 0 THEN 1 ELSE g1
        h2 == IF g2 = 0 THEN 1 ELSE g2
    IN  Rat((a[1] \div h1) * (b[1] \div h2), (a[2] \div h2) * (b[2] \div h1))
RatDiv(a, b) == RatMul(a, IF b[1] < 0 THEN <<-b[2], -b[1]>> ELSE <<b[2], b[1]>>)

\* absent optional fields of PaperPosition
Undefined == -1
NoPrice == <<-1, 1>>

-----------------------------------------------------------------------------
(* Map helpers (JavaScript Map: set, delete)                               *)

MapSet(m, k, v) == [x \in DOMAIN m \cup {k} |-> IF x = k THEN v ELSE m[x]]
MapDelete(m, k) == [x \in DOMAIN m \ {k} |-> m[x]]
EmptyMap == [x \in {} |-> 0]

-----------------------------------------------------------------------------
(* MultiWindowBuffer (utils/ringBuffer.ts)                                 *)

\* a Transaction: [timestamp, buyerWallet, solAmount]
Tx(ts, w, a) == [timestamp |-> ts, buyerWallet |-> w, solAmount |-> a]

RECURSIVE SumFrom(_, _, _)
\* sum of f[i] over i in lo..hi (Array.reduce((a, b) => a + b, 0))
SumFrom(f, lo, hi) ==
    IF lo > hi THEN 0
    ELSE IF lo = hi THEN f[lo]
    ELSE LET mid == (lo + hi) \div 2
         IN  SumFrom(f, lo, mid) + SumFrom(f, mid + 1, hi)

SeqMax(s) ==
    LET values == {s[i] : i \in 1..Len(s)}
    IN  CHOOSE x \in values : \A y \in values : y <= x
SeqMin(s) ==
    LET values == {s[i] : i \in 1..Len(s)}
    IN  CHOOSE x \in values : \A y \in values : y >= x

\* sorted[n - k + 1] of the ascending sort of s: its k-th largest element
KthLargest(s, k) ==
    CHOOSE x \in {s[i] : i \in 1..Len(s)} :
        /\ Cardinality({i \in 1..Len(s) : s[i] > x}) < k
        /\ Cardinality({i \in 1..Len(s) : s[i] >= x}) >= k

RECURSIVE dropLeading(_, _)
\* the sequence without its leading entries older than the cutoff
dropLeading(transactions, cutoff) ==
    IF transactions = <<>> \/ transactions[1].timestamp >= cutoff
    THEN transactions
    ELSE dropLeading(Tail(transactions), cutoff)

\* a faulty variant: only the leading old entries are evicted
evictOld_leadingOnly(transactions, t) ==
    dropLeading(transactions, t - windows_buyers)

evictOld(transactions, t) ==
    SelectSeq(transactions, LAMBDA tx : tx.timestamp >= t - windows_buyers)

add(transactions, tx, t) == evictOld(Append(transactions, tx), t)

\* a faulty variant: the entry at exactly the cutoff is left out
getWindow_exclusive(transactions, windowMs, t) ==
    SelectSeq(transactions, LAMBDA tx : tx.timestamp > t - windowMs)

getWindow(transactions, windowMs, t) ==
    SelectSeq(transactions, LAMBDA tx : tx.timestamp >= t - windowMs)

countWindow(transactions, windowMs, t) == Len(getWindow(transactions, windowMs, t))

getRange(transactions, startMsAgo, endMsAgo, t) ==
    SelectSeq(transactions,
              LAMBDA tx : tx.timestamp >= t - startMsAgo /\ tx.timestamp <= t - endMsAgo)

countRange(transactions, startMsAgo, endMsAgo, t) ==
    Len(getRange(transactions, startMsAgo, endMsAgo, t))

getUniqueBuyers(transactions, windowMs, t) ==
    LET txs == getWindow(transactions, windowMs, t)
    IN  {txs[i].buyerWallet : i \in 1..Len(txs)}

getRepeatBuyers(transactions, windowMs, t) ==
    LET txs == getWindow(transactions, windowMs, t)
        buyers == {txs[i].buyerWallet : i \in 1..Len(txs)}
    IN  IF Cardinality(buyers) = Len(txs)
        THEN 0
        ELSE Cardinality({w \in buyers :
                 Cardinality({i \in 1..Len(txs) : txs[i].buyerWallet = w}) >= 2})

\* {avg, std, max}; std is returned squared (stdSq = avgSquaredDiff)
getBuySizeStats(transactions, windowMs, t) ==
    LET txs == getWindow(transactions, windowMs, t)
        n == Len(txs)
        amounts == [i \in 1..n |-> txs[i].solAmount]
        sum == SumFrom(amounts, 1, n)
        sumSq == SumFrom([i \in 1..n |-> amounts[i] * amounts[i]], 1, n)
    IN  IF n = 0
        THEN [avg |-> RatInt(0), stdSq |-> RatInt(0), max |-> 0]
        ELSE [avg |-> Rat(sum, n),
              \* sum((x - avg)^2) / n = (n * sum(x^2) - sum(x)^2) / n^2
              stdSq |-> Rat(n * sumSq - sum * sum, n * n),
              max |-> SeqMax(amounts)]

\* an unbounded interval
Infinity == <<1, 0>>

\* a faulty variant: 0 with fewer than 2 transactions
getTxIntervalMean_zeroWhenFew(transactions, windowMs, t) ==
    LET txs == getWindow(transactions, windowMs, t)
        n == Len(txs)
        stamps == [i \in 1..n |-> txs[i].timestamp]
    IN  IF n < 2
        THEN RatInt(0)
        ELSE Rat(SeqMax(stamps) - SeqMin(stamps), (n - 1) * 1000)

\* mean gap, in seconds; Infinity with fewer than 2 transactions
getTxIntervalMean(transactions, windowMs, t) ==
    LET txs == getWindow(transactions, windowMs, t)
        n == Len(txs)
        stamps == [i \in 1..n |-> txs[i].timestamp]
    IN  IF n < 2
        THEN Infinity
        \* the gaps of the sorted stamps add up to last - first
        ELSE Rat(SeqMax(stamps) - SeqMin(stamps), (n - 1) * 1000)

getTxIntervalDelta(transactions, t) ==
    LET recentTxs == getWindow(transactions, 60000, t)
        n == Len(recentTxs)
        stamps == [i \in 1..n |-> recentTxs[i].timestamp]
    IN  IF n < 3
        THEN FALSE
        ELSE LET currentInterval == KthLargest(stamps, 1) - KthLargest(stamps, 2)
                 previousInterval == KthLargest(stamps, 2) - KthLargest(stamps, 3)
             IN  currentInterval < previousInterval

-----------------------------------------------------------------------------
(* TokenTracker (core/tokenTracker.ts)                                     *)

NoWallet == 0

\* a faulty variant: records the transaction on a dropped tracker too
addTransaction_ignoresDropped(tracker, tx, t) ==
    [tracker EXCEPT
        !.transactions = add(tracker.transactions, tx, t),
        !.uniqueBuyers = @ \cup {tx.buyerWallet},
        !.lastTxTimestamp = tx.timestamp,
        !.devWallet = IF tracker.devWallet = NoWallet THEN tx.buyerWallet ELSE @,
        !.devBuyCount = IF tracker.devWallet = NoWallet THEN 1
                        ELSE IF tx.buyerWallet = tracker.devWallet THEN @ + 1
                        ELSE @]

addTransaction(tracker, tx, t) ==
    IF tracker.dropped
    THEN tracker
    ELSE [tracker EXCEPT
            !.transactions = add(tracker.transactions, tx, t),
            !.uniqueBuyers = @ \cup {tx.buyerWallet},
            !.lastTxTimestamp = tx.timestamp,
            !.devWallet = IF tracker.devWallet = NoWallet THEN tx.buyerWallet ELSE @,
            !.devBuyCount = IF tracker.devWallet = NoWallet THEN 1
                            ELSE IF tx.buyerWallet = tracker.devWallet THEN @ + 1
                            ELSE @]

\* new TokenTracker(tokenAddress, firstTx)
NewTokenTracker(tokenAddress, firstTx, t) ==
    addTransaction(
        [tokenAddress |-> tokenAddress,
         firstSeenTimestamp |-> firstTx.timestamp,
         lastTxTimestamp |-> firstTx.timestamp,
         transactions |-> <<>>,
         uniqueBuyers |-> {},
         dropped |-> FALSE,
         dropReason |-> "",
         metadataEditCount |-> 0,
         devWallet |-> NoWallet,
         devBuyCount |-> 0],
        firstTx, t)

getAgeMs(tracker, t) == t - tracker.firstSeenTimestamp

\* a faulty variant: a tracker expires on reaching the maximum age
isExpired_atMaxAge(tracker, t) ==
    getAgeMs(tracker, t) >= maxTokenAgeMinutes * msPerMinute

\* getAgeMinutes() > CONFIG.maxTokenAgeMinutes, without the division
isExpired(tracker, t) == getAgeMs(tracker, t) > maxTokenAgeMinutes * msPerMinute

shouldDropInactivity(tracker, t) ==
    /\ getAgeMs(tracker, t) >= inactivityDropMinutes * msPerMinute
    /\ Cardinality(tracker.uniqueBuyers) < minBuyersAfter5Min

calculateMetrics(tracker, t) ==
    LET txs == tracker.transactions
        txCount60s == countWindow(txs, windows_medium, t)
        txCountPrev60s == countRange(txs, prevWindowStartMsAgo, prevWindowEndMsAgo, t)
        sizeStats == getBuySizeStats(txs, windows_long, t)
    IN  [txCount30s |-> countWindow(txs, windows_short, t),
         txCount60s |-> txCount60s,
         txCount180s |-> countWindow(txs, windows_long, t),
         txCountPrev60s |-> txCountPrev60s,
         buyers5m |-> Cardinality(getUniqueBuyers(txs, windows_buyers, t)),
         repeatBuyers |-> getRepeatBuyers(txs, windows_buyers, t),
         avgBuySize |-> sizeStats.avg,
         buySizeStdSq |-> sizeStats.stdSq,
         largestBuy |-> sizeStats.max,
         txIntervalMean |-> getTxIntervalMean(txs, windows_medium, t),
         txIntervalDelta |-> getTxIntervalDelta(txs, t),
         txAcceleration |-> txCount60s - txCountPrev60s]

-----------------------------------------------------------------------------
(* Filter, signal and scoring stages                                       *)

\* the reasons array of evaluateFilters, as the set of failing conditions
filterReasons(tracker, metrics) ==
    {r \in {"largest_buy", "avg_buy_size_high", "avg_buy_size_low", "buy_size_std",
            "dev_wallet", "metadata_edited"} :
        \/ r = "largest_buy" /\ metrics.largestBuy > filters_maxLargestBuy
        \/ r = "avg_buy_size_high"
             /\ RatLt(RatInt(filters_maxAvgBuySize), metrics.avgBuySize)
        \/ r = "avg_buy_size_low"
             /\ RatLt(RatInt(0), metrics.avgBuySize)
             /\ RatLt(metrics.avgBuySize, RatInt(filters_minAvgBuySize))
        \/ r = "buy_size_std" /\ RatLt(RatInt(stdThresholdSq), metrics.buySizeStdSq)
        \/ r = "dev_wallet" /\ tracker.devBuyCount > filters_maxDevBuys
        \/ r = "metadata_edited" /\ tracker.metadataEditCount > filters_maxMetadataEdits}

\* a faulty variant: the reason names only the first failing condition
evaluateFilters_firstReasonOnly(tracker, metrics) ==
    LET reasons == filterReasons(tracker, metrics)
        order == <<"largest_buy", "avg_buy_size_high", "avg_buy_size_low",
                   "buy_size_std", "dev_wallet", "metadata_edited">>
        first == CHOOSE i \in 1..Len(order) :
                     /\ order[i] \in reasons
                     /\ \A j \in 1..(i - 1) : order[j] \notin reasons
    IN  [passed |-> reasons = {},
         reason |-> IF reasons = {} THEN {} ELSE {order[first]}]

evaluateFilters(tracker, metrics) ==
    LET reasons == filterReasons(tracker, metrics)
    IN  [passed |-> reasons = {}, reason |-> reasons]

\* a faulty variant: the pre-filter lets every amount through
quickFilterTransaction_passesAll(solAmount) == [pass |-> solAmount = solAmount]

quickFilterTransaction(solAmount) == [pass |-> ~(solAmount > filters_maxLargestBuy)]

\* a faulty variant: a flat transaction rate passes for acceleration
evaluateSignals_flatRatePasses(metrics) ==
    LET easPassed == /\ metrics.buyers5m >= signals_minBuyers5m
                     /\ metrics.txIntervalMean # Infinity
                     /\ RatLt(metrics.txIntervalMean, RatInt(signals_maxTxIntervalMean))
                     /\ metrics.txAcceleration >= 0
        lsfPassed == /\ RatLeq(RatInt(signals_minAvgBuySize), metrics.avgBuySize)
                     /\ RatLeq(metrics.avgBuySize, RatInt(signals_maxAvgBuySize))
                     /\ RatLt(metrics.buySizeStdSq, RatInt(lsfStdThresholdSq))
                     /\ metrics.largestBuy <= signals_maxLargestBuy
        mcPassed == /\ metrics.txCount60s >= signals_minTxCount60s
                    /\ metrics.txIntervalDelta
    IN  [easPassed |-> easPassed, lsfPassed |-> lsfPassed, mcPassed |-> mcPassed,
         allPassed |-> easPassed /\ lsfPassed /\ mcPassed]

\* a faulty variant: allPassed does not wait for the momentum condition
evaluateSignals_ignoresMomentum(metrics) ==
    LET easPassed == /\ metrics.buyers5m >= signals_minBuyers5m
                     /\ metrics.txIntervalMean # Infinity
                     /\ RatLt(metrics.txIntervalMean, RatInt(signals_maxTxIntervalMean))
                     /\ metrics.txAcceleration > 0
        lsfPassed == /\ RatLeq(RatInt(signals_minAvgBuySize), metrics.avgBuySize)
                     /\ RatLeq(metrics.avgBuySize, RatInt(signals_maxAvgBuySize))
                     /\ RatLt(metrics.buySizeStdSq, RatInt(lsfStdThresholdSq))
                     /\ metrics.largestBuy <= signals_maxLargestBuy
        mcPassed == /\ metrics.txCount60s >= signals_minTxCount60s
                    /\ metrics.txIntervalDelta
    IN  [easPassed |-> easPassed, lsfPassed |-> lsfPassed, mcPassed |-> mcPassed,
         allPassed |-> easPassed /\ lsfPassed]

evaluateSignals(metrics) ==
    LET easBuyers == metrics.buyers5m >= signals_minBuyers5m
        easInterval == /\ metrics.txIntervalMean # Infinity
                       /\ RatLt(metrics.txIntervalMean, RatInt(signals_maxTxIntervalMean))
        easAcceleration == metrics.txAcceleration > 0
        easPassed == easBuyers /\ easInterval /\ easAcceleration
        lsfAvgMin == RatLeq(RatInt(signals_minAvgBuySize), metrics.avgBuySize)
        lsfAvgMax == RatLeq(metrics.avgBuySize, RatInt(signals_maxAvgBuySize))
        lsfStd == RatLt(metrics.buySizeStdSq, RatInt(lsfStdThresholdSq))
        lsfLargest == metrics.largestBuy <= signals_maxLargestBuy
        lsfPassed == lsfAvgMin /\ lsfAvgMax /\ lsfStd /\ lsfLargest
        mcTxCount == metrics.txCount60s >= signals_minTxCount60s
        mcIntervalDelta == metrics.txIntervalDelta
        mcPassed == mcTxCount /\ mcIntervalDelta
    IN  [easPassed |-> easPassed, lsfPassed |-> lsfPassed, mcPassed |-> mcPassed,
         allPassed |-> easPassed /\ lsfPassed /\ mcPassed]

\* a faulty variant: the score is not clamped at 0
calculateScore_unclamped(metrics) ==
    metrics.buyers5m * scoring_buyersWeight
    + metrics.txAcceleration * scoring_accelerationWeight
    + metrics.repeatBuyers * scoring_repeatBuyersWeight
    - (IF metrics.largestBuy > scoreLargestBuyCeiling
       THEN scoring_largestBuyPenalty ELSE 0)
    - (IF metrics.txCount60s = 0 THEN scoring_stagnationPenalty ELSE 0)

calculateScore(metrics) ==
    LET buyersComponent == metrics.buyers5m * scoring_buyersWeight
        accelerationComponent == metrics.txAcceleration * scoring_accelerationWeight
        repeatBuyersComponent == metrics.repeatBuyers * scoring_repeatBuyersWeight
        largestBuyPenalty == IF metrics.largestBuy > scoreLargestBuyCeiling
                             THEN scoring_largestBuyPenalty ELSE 0
        stagnationPenalty == IF metrics.txCount60s = 0
                             THEN scoring_stagnationPenalty ELSE 0
        score == buyersComponent + accelerationComponent + repeatBuyersComponent
                 - largestBuyPenalty - stagnationPenalty
    IN  IF score > 0 THEN score ELSE 0

-----------------------------------------------------------------------------
(* The engine's mutable state, as one record st:                           *)
(*   trackers, trackerOrder (insertion order of the trackers Map),         *)
(*   positions, closedPositions, tokenToPosition, exitStates, killStates,  *)
(*   nextPositionId, processedTxCount, eventLog                            *)

\* events.emit(type, data)
emit(st, type, subject, reason) ==
    [st EXCEPT !.eventLog =
        Append(@, [type |-> type, subject |-> subject, reason |-> reason])]

RECURSIVE SortedSeq(_)
\* the elements of a finite set of integers in ascending order
SortedSeq(S) ==
    IF S = {} THEN <<>>
    ELSE LET m == CHOOSE x \in S : \A y \in S : x <= y
         IN  <<m>> \o SortedSeq(S \ {m})

\* TokenTracker.drop
drop(st, tokenAddress, reason) ==
    IF st.trackers[tokenAddress].dropped
    THEN st
    ELSE emit([st EXCEPT !.trackers[tokenAddress].dropped = TRUE,
                         !.trackers[tokenAddress].dropReason = reason],
              "token_dropped", tokenAddress, reason)

-----------------------------------------------------------------------------
(* PositionManager (trading/position.ts)                                   *)

\* the PaperPosition object with this id: in the live map or in the archive
positionObject(st, positionId) ==
    IF positionId \in DOMAIN st.positions
    THEN st.positions[positionId]
    ELSE LET i == CHOOSE j \in 1..Len(st.closedPositions) :
                      st.closedPositions[j].id = positionId
         IN  st.closedPositions[i]

getPositionByToken(st, tokenAddress) ==
    IF tokenAddress \notin DOMAIN st.tokenToPosition
    THEN Undefined
    ELSE IF st.tokenToPosition[tokenAddress] \in DOMAIN st.positions
         THEN st.tokenToPosition[tokenAddress]
         ELSE Undefined

\* a faulty variant: no token is taken to have a live position
hasOpenPosition_never(st, tokenAddress) ==
    tokenAddress \in DOMAIN st.tokenToPosition /\ st.nextPositionId < 0

hasOpenPosition(st, tokenAddress) ==
    LET positionId == getPositionByToken(st, tokenAddress)
    IN  positionId # Undefined /\ st.positions[positionId].status # "closed"

getOpenPositions(st) ==
    SortedSeq({id \in DOMAIN st.positions : st.positions[id].status # "closed"})

\* openPosition with an id that is not fresh: the number of live positions + 1
openPosition_reusesId(st, tokenAddress, entryPrice, entryScore, t) ==
    LET existingId == IF tokenAddress \in DOMAIN st.tokenToPosition
                      THEN st.tokenToPosition[tokenAddress] ELSE Undefined
        newId == Cardinality(DOMAIN st.positions) + 1
        position == [id |-> newId,
                     tokenAddress |-> tokenAddress,
                     entryTimestamp |-> t,
                     entryPrice |-> entryPrice,
                     entryScore |-> entryScore,
                     positionSizeSOL |-> entry_positionSizeSOL,
                     remainingSizeSOL |-> RatInt(entry_positionSizeSOL),
                     status |-> "open",
                     partialExitTimestamp |-> Undefined,
                     partialExitPrice |-> NoPrice,
                     exitTimestamp |-> Undefined,
                     exitPrice |-> NoPrice,
                     exitReason |-> "",
                     maxUnrealizedPnL |-> RatInt(0),
                     realizedPnL |-> RatInt(0)]
    IN  IF /\ existingId # Undefined
           /\ existingId \in DOMAIN st.positions
           /\ st.positions[existingId].status # "closed"
        THEN [st |-> st, id |-> existingId]
        ELSE [st |-> emit([st EXCEPT
                              !.positions = MapSet(@, newId, position),
                              !.tokenToPosition = MapSet(@, tokenAddress, newId),
                              !.nextPositionId = IF newId > @ THEN newId ELSE @],
                          "position_opened", newId, ""),
              id |-> newId]

\* returns the state and the id of the position returned
\* a faulty variant: opens without looking for a live position of the token
openPosition_noExistingCheck(st, tokenAddress, entryPrice, entryScore, t) ==
    LET newId == st.nextPositionId + 1
        position == [id |-> newId,
                     tokenAddress |-> tokenAddress,
                     entryTimestamp |-> t,
                     entryPrice |-> entryPrice,
                     entryScore |-> entryScore,
                     positionSizeSOL |-> entry_positionSizeSOL,
                     remainingSizeSOL |-> RatInt(entry_positionSizeSOL),
                     status |-> "open",
                     partialExitTimestamp |-> Undefined,
                     partialExitPrice |-> NoPrice,
                     exitTimestamp |-> Undefined,
                     exitPrice |-> NoPrice,
                     exitReason |-> "",
                     maxUnrealizedPnL |-> RatInt(0),
                     realizedPnL |-> RatInt(0)]
    IN  [st |-> emit([st EXCEPT
                         !.positions = MapSet(@, newId, position),
                         !.tokenToPosition = MapSet(@, tokenAddress, newId),
                         !.nextPositionId = newId],
                     "position_opened", newId, ""),
         id |-> newId]

openPosition(st, tokenAddress, entryPrice, entryScore, t) ==
    LET existingId == IF tokenAddress \in DOMAIN st.tokenToPosition
                      THEN st.tokenToPosition[tokenAddress] ELSE Undefined
        newId == st.nextPositionId + 1
        position == [id |-> newId,
                     tokenAddress |-> tokenAddress,
                     entryTimestamp |-> t,
                     entryPrice |-> entryPrice,
                     entryScore |-> entryScore,
                     positionSizeSOL |-> entry_positionSizeSOL,
                     remainingSizeSOL |-> RatInt(entry_positionSizeSOL),
                     status |-> "open",
                     partialExitTimestamp |-> Undefined,
                     partialExitPrice |-> NoPrice,
                     exitTimestamp |-> Undefined,
                     exitPrice |-> NoPrice,
                     exitReason |-> "",
                     maxUnrealizedPnL |-> RatInt(0),
                     realizedPnL |-> RatInt(0)]
    IN  IF /\ existingId # Undefined
           /\ existingId \in DOMAIN st.positions
           /\ st.positions[existingId].status # "closed"
        THEN [st |-> st, id |-> existingId]
        ELSE [st |-> emit([st EXCEPT
                              !.positions = MapSet(@, newId, position),
                              !.tokenToPosition = MapSet(@, tokenAddress, newId),
                              !.nextPositionId = newId],
                          "position_opened", newId, ""),
              id |-> newId]

priceChangeOf(position, currentPrice) ==
    RatDiv(RatSub(currentPrice, position.entryPrice), position.entryPrice)

\* a faulty variant: liquidates the fraction and leaves the status as it was
executePartialExit_keepsStatus(st, positionId, currentPrice, t) ==
    IF positionId \notin DOMAIN st.positions
       \/ st.positions[positionId].status = "closed"
    THEN st
    ELSE LET position == st.positions[positionId]
             exitAmount == RatMul(RatInt(position.positionSizeSOL),
                                  Rat(exit_partialExitPercent, 100))
             pnl == RatMul(exitAmount, priceChangeOf(position, currentPrice))
         IN  emit([st EXCEPT !.positions[positionId] =
                      [position EXCEPT
                          !.remainingSizeSOL = RatSub(@, exitAmount),
                          !.partialExitTimestamp = t,
                          !.partialExitPrice = currentPrice,
                          !.realizedPnL = RatAdd(@, pnl)]],
                  "position_partial_exit", positionId, "")

executePartialExit(st, positionId, currentPrice, t) ==
    IF positionId \notin DOMAIN st.positions
       \/ st.positions[positionId].status = "closed"
    THEN st
    ELSE LET position == st.positions[positionId]
             exitAmount == RatMul(RatInt(position.positionSizeSOL),
                                  Rat(exit_partialExitPercent, 100))
             pnl == RatMul(exitAmount, priceChangeOf(position, currentPrice))
         IN  emit([st EXCEPT !.positions[positionId] =
                      [position EXCEPT
                          !.remainingSizeSOL = RatSub(@, exitAmount),
                          !.partialExitTimestamp = t,
                          !.partialExitPrice = currentPrice,
                          !.realizedPnL = RatAdd(@, pnl),
                          !.status = "partial"]],
                  "position_partial_exit", positionId, "")

\* closePosition without this.positions.delete(positionId)
closePosition_keepsLive(st, positionId, currentPrice, reason, t) ==
    IF positionId \notin DOMAIN st.positions
       \/ st.positions[positionId].status = "closed"
    THEN st
    ELSE LET position == st.positions[positionId]
             pnl == RatMul(position.remainingSizeSOL,
                           priceChangeOf(position, currentPrice))
             closed == [position EXCEPT
                           !.remainingSizeSOL = RatInt(0),
                           !.exitTimestamp = t,
                           !.exitPrice = currentPrice,
                           !.exitReason = reason,
                           !.realizedPnL = RatAdd(@, pnl),
                           !.status = "closed"]
         IN  emit([st EXCEPT
                      !.closedPositions = Append(@, closed),
                      !.positions[positionId] = closed,
                      !.tokenToPosition = MapDelete(@, position.tokenAddress)],
                  "position_closed", positionId, reason)

\* closePosition without the position_closed event
closePosition_silent(st, positionId, currentPrice, reason, t) ==
    IF positionId \notin DOMAIN st.positions
       \/ st.positions[positionId].status = "closed"
    THEN st
    ELSE LET position == st.positions[positionId]
             pnl == RatMul(position.remainingSizeSOL,
                           priceChangeOf(position, currentPrice))
             closed == [position EXCEPT
                           !.remainingSizeSOL = RatInt(0),
                           !.exitTimestamp = t,
                           !.exitPrice = currentPrice,
                           !.exitReason = reason,
                           !.realizedPnL = RatAdd(@, pnl),
                           !.status = "closed"]
         IN  [st EXCEPT
                 !.closedPositions = Append(@, closed),
                 !.positions = MapDelete(@, positionId),
                 !.tokenToPosition = MapDelete(@, position.tokenAddress)]

\* a faulty variant: the remaining size is not cleared at the close
closePosition_keepsRemaining(st, positionId, currentPrice, reason, t) ==
    IF positionId \notin DOMAIN st.positions
       \/ st.positions[positionId].status = "closed"
    THEN st
    ELSE LET position == st.positions[positionId]
             pnl == RatMul(position.remainingSizeSOL,
                           priceChangeOf(position, currentPrice))
             closed == [position EXCEPT
                           !.remainingSizeSOL = @,
                           !.exitTimestamp = t,
                           !.exitPrice = currentPrice,
                           !.exitReason = reason,
                           !.realizedPnL = RatAdd(@, pnl),
                           !.status = "closed"]
         IN  emit([st EXCEPT
                      !.closedPositions = Append(@, closed),
                      !.positions = MapDelete(@, positionId),
                      !.tokenToPosition = MapDelete(@, position.tokenAddress)],
                  "position_closed", positionId, reason)

closePosition(st, positionId, currentPrice, reason, t) ==
    IF positionId \notin DOMAIN st.positions
       \/ st.positions[positionId].status = "closed"
    THEN st
    ELSE LET position == st.positions[positionId]
             pnl == RatMul(position.remainingSizeSOL,
                           priceChangeOf(position, currentPrice))
             closed == [position EXCEPT
                           !.remainingSizeSOL = RatInt(0),
                           !.exitTimestamp = t,
                           !.exitPrice = currentPrice,
                           !.exitReason = reason,
                           !.realizedPnL = RatAdd(@, pnl),
                           !.status = "closed"]
         IN  emit([st EXCEPT
                      !.closedPositions = Append(@, closed),
                      !.positions = MapDelete(@, positionId),
                      !.tokenToPosition = MapDelete(@, position.tokenAddress)],
                  "position_closed", positionId, reason)

\* a faulty variant: records the latest percentage, not the maximum
updateUnrealizedPnL_recordsLatest(st, positionId, currentPrice) ==
    IF positionId \notin DOMAIN st.positions
       \/ st.positions[positionId].status = "closed"
    THEN st
    ELSE [st EXCEPT !.positions[positionId].maxUnrealizedPnL =
             RatMul(priceChangeOf(st.positions[positionId], currentPrice),
                    RatInt(100))]

updateUnrealizedPnL(st, positionId, currentPrice) ==
    IF positionId \notin DOMAIN st.positions
       \/ st.positions[positionId].status = "closed"
    THEN st
    ELSE LET position == st.positions[positionId]
             unrealizedPct == RatMul(priceChangeOf(position, currentPrice), RatInt(100))
         IN  IF RatLt(position.maxUnrealizedPnL, unrealizedPct)
             THEN [st EXCEPT !.positions[positionId].maxUnrealizedPnL = unrealizedPct]
             ELSE st

-----------------------------------------------------------------------------
(* ExitEngine (trading/exitEngine.ts)                                      *)

ExitEngine_initPosition(st, positionId, initialTxCount) ==
    [st EXCEPT !.exitStates =
        MapSet(@, positionId,
               [consecutiveTxDecreases |-> 0,
                lastTxCount60s |-> initialTxCount,
                spikeDetected |-> FALSE,
                \* undefined
                postSpikeTxCount |-> 0])]

ExitEngine_cleanup(st, positionId) ==
    [st EXCEPT !.exitStates = MapDelete(@, positionId)]

\* returns the state and {shouldPartialExit, shouldFullExit, reason}
evaluateExit(st, positionId, currentPrice, metrics, tracker, t) ==
    IF positionId \notin DOMAIN st.exitStates
    THEN [st |-> ExitEngine_initPosition(st, positionId, metrics.txCount60s),
          shouldPartialExit |-> FALSE, shouldFullExit |-> FALSE, reason |-> ""]
    ELSE
    LET position == positionObject(st, positionId)
        state == st.exitStates[positionId]
        pnlPercent == RatMul(priceChangeOf(position, currentPrice), RatInt(100))
        st1 == updateUnrealizedPnL(st, positionId, currentPrice)
        shouldPartialExit ==
            /\ position.status = "open"
            /\ RatLeq(RatInt(exit_partialProfitPercent), pnlPercent)
        profit == RatLeq(RatInt(exit_fullProfitPercent), pnlPercent)
        timeSinceLastTx == t - tracker.lastTxTimestamp
        inactive == timeSinceLastTx >= exit_noActivitySeconds * 1000
        decreased == metrics.txCount60s < state.lastTxCount60s
        increased == metrics.txCount60s > state.lastTxCount60s
        decreases == IF decreased THEN state.consecutiveTxDecreases + 1
                     ELSE IF increased THEN 0
                     ELSE state.consecutiveTxDecreases
        decreasedTwice == decreased /\ decreases >= exit_txDecreaseThreshold
        \* txCount60s > lastTxCount60s * 1.5
        spike == increased /\ 2 * metrics.txCount60s > 3 * state.lastTxCount60s
        spikeDetected == state.spikeDetected \/ spike
        postSpikeTxCount == IF spike THEN metrics.txCount60s ELSE state.postSpikeTxCount
        \* txCount60s < postSpikeTxCount * 0.5
        stagnation == /\ spikeDetected
                      /\ postSpikeTxCount # 0
                      /\ 2 * metrics.txCount60s < postSpikeTxCount
        reason == IF stagnation THEN "stagnation_after_spike"
                  ELSE IF decreasedTwice THEN "tx_decrease_twice"
                  ELSE IF inactive THEN "no_activity_60s"
                  ELSE IF profit THEN "profit_target_full"
                  ELSE ""
    IN  [st |-> [st1 EXCEPT !.exitStates[positionId] =
                    [consecutiveTxDecreases |-> decreases,
                     lastTxCount60s |-> metrics.txCount60s,
                     spikeDetected |-> spikeDetected,
                     postSpikeTxCount |-> postSpikeTxCount]],
         shouldPartialExit |-> shouldPartialExit,
         shouldFullExit |-> profit \/ inactive \/ decreasedTwice \/ stagnation,
         reason |-> reason]

\* a faulty variant: a full exit is executed without the partial exit before it
executeExit_fullExitFirst(st, positionId, currentPrice, evaluation, t) ==
    LET position == positionObject(st, positionId)
    IN  IF evaluation.shouldFullExit /\ evaluation.reason # ""
        THEN ExitEngine_cleanup(
                 closePosition(st, positionId, currentPrice, evaluation.reason, t),
                 positionId)
        ELSE IF evaluation.shouldPartialExit /\ position.status = "open"
             THEN executePartialExit(st, positionId, currentPrice, t)
             ELSE st

executeExit(st, positionId, currentPrice, evaluation, t) ==
    LET position == positionObject(st, positionId)
    IN  IF evaluation.shouldPartialExit /\ position.status = "open"
        THEN LET st1 == executePartialExit(st, positionId, currentPrice, t)
             IN  IF positionId \notin DOMAIN st1.positions
                 THEN st1
                 ELSE IF evaluation.shouldFullExit /\ evaluation.reason # ""
                      THEN ExitEngine_cleanup(
                               closePosition(st1, positionId, currentPrice,
                                             evaluation.reason, t),
                               positionId)
                      ELSE st1
        ELSE IF evaluation.shouldFullExit /\ evaluation.reason # ""
             THEN ExitEngine_cleanup(
                      closePosition(st, positionId, currentPrice, evaluation.reason, t),
                      positionId)
             ELSE st

-----------------------------------------------------------------------------
(* KillSwitch (trading/killSwitch.ts)                                      *)

\* check called without latestTx
NoTx == [timestamp |-> Undefined, buyerWallet |-> NoWallet, solAmount |-> 0]

KillSwitch_initPosition(st, positionId, t) ==
    [st EXCEPT !.killStates = MapSet(@, positionId, [lastActivityTimestamp |-> t])]

KillSwitch_cleanup(st, positionId) ==
    [st EXCEPT !.killStates = MapDelete(@, positionId)]

trigger(st, positionId, currentPrice, reason, t) ==
    emit(KillSwitch_cleanup(closePosition(st, positionId, currentPrice, reason, t),
                            positionId),
         "kill_switch_triggered", positionId, reason)

\* returns the state and whether the kill switch was triggered
check(st, positionId, tracker, currentPrice, latestTx, t) ==
    IF positionId \notin DOMAIN st.killStates
    THEN [st |-> KillSwitch_initPosition(st, positionId, t), triggered |-> FALSE]
    ELSE
    LET timeSinceLastTx == t - tracker.lastTxTimestamp
        st1 == [st EXCEPT !.killStates[positionId].lastActivityTimestamp =
                              latestTx.timestamp]
    IN  IF timeSinceLastTx >= killSwitch_noTxSeconds * 1000
        THEN [st |-> trigger(st, positionId, currentPrice, "kill_switch_no_tx", t),
              triggered |-> TRUE]
        ELSE IF latestTx = NoTx
        THEN [st |-> st, triggered |-> FALSE]
        ELSE IF latestTx.solAmount > killSwitch_whaleBuyThreshold
        THEN [st |-> trigger(st1, positionId, currentPrice, "kill_switch_whale", t),
              triggered |-> TRUE]
        ELSE IF /\ tracker.devWallet # NoWallet
                /\ latestTx.buyerWallet = tracker.devWallet
                /\ tracker.devBuyCount > 1
        THEN [st |-> trigger(st1, positionId, currentPrice, "kill_switch_dev", t),
              triggered |-> TRUE]
        ELSE [st |-> st1, triggered |-> FALSE]

-----------------------------------------------------------------------------
(* EntryEngine (trading/entryEngine.ts)                                    *)

\* buyers5m * avgBuySize * multiplier
estimateMarketCap(metrics) ==
    RatMul(RatMul(RatInt(metrics.buyers5m), metrics.avgBuySize),
           RatInt(marketCapMultiplier))

calculateEntryPrice(metrics) == metrics.avgBuySize

\* evaluateEntry without the minimum-age check
evaluateEntry_noMinAge(st, tracker, score, signalEval, metrics, t) ==
    LET estimatedMC == estimateMarketCap(metrics)
    IN  IF hasOpenPosition(st, tracker.tokenAddress) THEN "position_already_exists"
        ELSE IF tracker.dropped THEN "token_dropped"
        ELSE IF score < entry_minScore THEN "score_too_low"
        ELSE IF getAgeMs(tracker, t) > entry_maxTokenAgeMinutes * msPerMinute
             THEN "too_old"
        ELSE IF ~signalEval.allPassed THEN "signals_failed"
        ELSE IF \/ RatLt(estimatedMC, RatInt(entry_minMarketCapSOL))
                \/ RatLt(RatInt(entry_maxMarketCapSOL), estimatedMC)
             THEN "mc_out_of_range"
        ELSE ""

\* the rejection reason, "" when eligible
evaluateEntry(st, tracker, score, signalEval, metrics, t) ==
    LET estimatedMC == estimateMarketCap(metrics)
    IN  IF hasOpenPosition(st, tracker.tokenAddress) THEN "position_already_exists"
        ELSE IF tracker.dropped THEN "token_dropped"
        ELSE IF score < entry_minScore THEN "score_too_low"
        ELSE IF getAgeMs(tracker, t) < entry_minTokenAgeMinutes * msPerMinute
             THEN "too_young"
        ELSE IF getAgeMs(tracker, t) > entry_maxTokenAgeMinutes * msPerMinute
             THEN "too_old"
        ELSE IF ~signalEval.allPassed THEN "signals_failed"
        ELSE IF \/ RatLt(estimatedMC, RatInt(entry_minMarketCapSOL))
                \/ RatLt(RatInt(entry_maxMarketCapSOL), estimatedMC)
             THEN "mc_out_of_range"
        ELSE ""

\* the missedRunners diagnostics list is not part of the model
tryEntry(st, tracker, score, signalEval, metrics, t) ==
    IF evaluateEntry(st, tracker, score, signalEval, metrics, t) # ""
    THEN st
    ELSE LET opened == openPosition(st, tracker.tokenAddress,
                                    calculateEntryPrice(metrics), score, t)
             st1 == ExitEngine_initPosition(opened.st, opened.id, metrics.txCount60s)
             st2 == KillSwitch_initPosition(st1, opened.id, t)
         IN  emit(st2, "signal_detected", tracker.tokenAddress, "")

-----------------------------------------------------------------------------
(* TokenRegistry (core/tokenTracker.ts)                                    *)

TokenRegistry_processTransaction(st, tokenAddress, tx, t) ==
    IF tokenAddress \notin DOMAIN st.trackers
    THEN emit([st EXCEPT
                  !.trackers = MapSet(@, tokenAddress,
                                      NewTokenTracker(tokenAddress, tx, t)),
                  !.trackerOrder = Append(@, tokenAddress)],
              "token_new", tokenAddress, "")
    ELSE [st EXCEPT !.trackers[tokenAddress] = addTransaction(@, tx, t)]

getActiveTrackers(st, t) ==
    SelectSeq(st.trackerOrder,
              LAMBDA a : ~st.trackers[a].dropped /\ ~isExpired(st.trackers[a], t))

RECURSIVE cleanupDrops(_, _, _)
\* the first loop of cleanup, from the i-th tracker on
cleanupDrops(st, i, t) ==
    IF i > Len(st.trackerOrder)
    THEN st
    ELSE LET address == st.trackerOrder[i]
             tracker == st.trackers[address]
         IN  IF isExpired(tracker, t)
             THEN cleanupDrops(st, i + 1, t)
             ELSE IF ~tracker.dropped /\ shouldDropInactivity(tracker, t)
             THEN cleanupDrops(drop(st, address, "insufficient_buyers_after_5m"),
                               i + 1, t)
             ELSE cleanupDrops(st, i + 1, t)

cleanup(st, t) ==
    LET toRemove == {a \in DOMAIN st.trackers : isExpired(st.trackers[a], t)}
        st1 == cleanupDrops(st, 1, t)
    IN  [st1 EXCEPT
            !.trackers = [a \in DOMAIN st1.trackers \ toRemove |-> st1.trackers[a]],
            !.trackerOrder = SelectSeq(@, LAMBDA a : a \notin toRemove)]

-----------------------------------------------------------------------------
(* SignalEngine (core/signalEngine.ts)                                     *)

\* monitorPosition with the exit evaluation ahead of the kill-switch check
monitorPosition_exitFirst(st, positionId, tokenAddress, latestTx, t) ==
    LET tracker == st.trackers[tokenAddress]
        metrics == calculateMetrics(tracker, t)
        currentPrice == metrics.avgBuySize
        exitEval == evaluateExit(st, positionId, currentPrice, metrics, tracker, t)
        exited == IF exitEval.shouldPartialExit \/ exitEval.shouldFullExit
                  THEN executeExit(exitEval.st, positionId, currentPrice, exitEval, t)
                  ELSE exitEval.st
    IN  IF positionId \notin DOMAIN exited.positions
        THEN exited
        ELSE check(exited, positionId, tracker, currentPrice, latestTx, t).st

monitorPosition(st, positionId, tokenAddress, latestTx, t) ==
    LET tracker == st.trackers[tokenAddress]
        metrics == calculateMetrics(tracker, t)
        currentPrice == metrics.avgBuySize
        killed == check(st, positionId, tracker, currentPrice, latestTx, t)
    IN  IF killed.triggered
        THEN killed.st
        ELSE LET exitEval == evaluateExit(killed.st, positionId, currentPrice,
                                          metrics, tracker, t)
             IN  IF exitEval.shouldPartialExit \/ exitEval.shouldFullExit
                 THEN executeExit(exitEval.st, positionId, currentPrice, exitEval, t)
                 ELSE exitEval.st

evaluateForEntry(st, tokenAddress, t) ==
    LET tracker == st.trackers[tokenAddress]
        metrics == calculateMetrics(tracker, t)
        filterResult == evaluateFilters(tracker, metrics)
    IN  IF ~filterResult.passed
        THEN drop(st, tokenAddress, filterResult.reason)
        ELSE tryEntry(st, tracker, calculateScore(metrics), evaluateSignals(metrics),
                      metrics, t)

processTransaction(st, tokenAddress, tx, t) ==
    LET st0 == [st EXCEPT !.processedTxCount = @ + 1]
    IN  IF ~quickFilterTransaction(tx.solAmount).pass
        THEN st0
        ELSE LET st1 == TokenRegistry_processTransaction(st0, tokenAddress, tx, t)
                 existingPosition == getPositionByToken(st1, tokenAddress)
             IN  IF st1.trackers[tokenAddress].dropped
                 THEN st1
                 ELSE IF /\ existingPosition # Undefined
                         /\ st1.positions[existingPosition].status # "closed"
                 THEN monitorPosition(st1, existingPosition, tokenAddress, tx, t)
                 ELSE evaluateForEntry(st1, tokenAddress, t)

RECURSIVE checkStaleLoop(_, _, _, _)
\* the loop of checkStalePositions over openPositions, from the i-th on
checkStaleLoop(st, openPositions, i, t) ==
    IF i > Len(openPositions)
    THEN st
    ELSE LET positionId == openPositions[i]
             tokenAddress == positionObject(st, positionId).tokenAddress
         IN  IF tokenAddress \notin DOMAIN st.trackers
             THEN checkStaleLoop(st, openPositions, i + 1, t)
             ELSE
             LET tracker == st.trackers[tokenAddress]
                 metrics == calculateMetrics(tracker, t)
                 currentPrice == metrics.avgBuySize
                 killed == check(st, positionId, tracker, currentPrice, NoTx, t)
             IN  IF killed.triggered
                 THEN checkStaleLoop(killed.st, openPositions, i + 1, t)
                 ELSE LET exitEval == evaluateExit(killed.st, positionId, currentPrice,
                                                   metrics, tracker, t)
                      IN  IF exitEval.shouldFullExit /\ exitEval.reason # ""
                          THEN checkStaleLoop(
                                   executeExit(exitEval.st, positionId, currentPrice,
                                               exitEval, t),
                                   openPositions, i + 1, t)
                          ELSE checkStaleLoop(exitEval.st, openPositions, i + 1, t)

checkStalePositions(st, t) == checkStaleLoop(st, getOpenPositions(st), 1, t)

RECURSIVE recalculateLoop(_, _, _, _)
\* the loop of recalculateScores over activeTrackers, from the i-th on
recalculateLoop(st, activeTrackers, i, t) ==
    IF i > Len(activeTrackers)
    THEN st
    ELSE LET tokenAddress == activeTrackers[i]
         IN  IF st.trackers[tokenAddress].dropped
             THEN recalculateLoop(st, activeTrackers, i + 1, t)
             ELSE IF hasOpenPosition(st, tokenAddress)
             THEN recalculateLoop(st, activeTrackers, i + 1, t)
             ELSE recalculateLoop(evaluateForEntry(st, tokenAddress, t),
                                  activeTrackers, i + 1, t)

recalculateScores(st, t) ==
    checkStalePositions(recalculateLoop(st, getActiveTrackers(st, t), 1, t), t)

-----------------------------------------------------------------------------
(* The state machine                                                       *)

\* the engine's state as a record, and back
engineVars == <<trackers, positions, closedPositions, tokenToPosition, exitStates,
                killStates, nextPositionId, processedTxCount, eventLog>>

EngineState ==
    [trackers |-> trackers.map, trackerOrder |-> trackers.order,
     positions |-> positions, closedPositions |-> closedPositions,
     tokenToPosition |-> tokenToPosition, exitStates |-> exitStates,
     killStates |-> killStates, nextPositionId |-> nextPositionId,
     processedTxCount |-> processedTxCount, eventLog |-> eventLog]

Becomes(st) ==
    /\ trackers' = [map |-> st.trackers, order |-> st.trackerOrder]
    /\ positions' = st.positions
    /\ closedPositions' = st.closedPositions
    /\ tokenToPosition' = st.tokenToPosition
    /\ exitStates' = st.exitStates
    /\ killStates' = st.killStates
    /\ nextPositionId' = st.nextPositionId
    /\ processedTxCount' = st.processedTxCount
    /\ eventLog' = st.eventLog

\* no method has been called directly
NoCall ==
    [seq |-> 0, op |-> "", at |-> 0, targetStatus |-> "",
     shouldPartialExit |-> FALSE, shouldFullExit |-> FALSE, returned |-> Undefined]

\* the engine after start(): running, the score interval, the registry's
\* cleanup interval and the status interval armed; no status printed, no
\* stop() yet
Started ==
    [isRunning |-> TRUE, scoreInterval |-> TRUE, cleanupInterval |-> TRUE,
     statusInterval |-> TRUE, lastStatusAt |-> 0, stoppedAt |-> Undefined]

\* new SignalEngine(); start() has connected and armed the score interval
EngineInit ==
    /\ now = 0
    /\ trackers = [map |-> EmptyMap, order |-> <<>>]
    /\ positions = EmptyMap
    /\ closedPositions = <<>>
    /\ tokenToPosition = EmptyMap
    /\ exitStates = EmptyMap
    /\ killStates = EmptyMap
    /\ nextPositionId = 0
    /\ processedTxCount = 0
    /\ eventLog = <<>>
    /\ scoreTickDue = FALSE
    /\ cleanupDue = FALSE
    /\ burstsDone = 0
    /\ lastTxEventAt = [a \in Tokens |-> Undefined]
    /\ lastTx = [tokenAddress |-> "", tx |-> NoTx]
    /\ firstRecordedBuyer = [a \in Tokens |-> NoWallet]
    /\ call = NoCall
    /\ timers = Started

Init == EngineInit /\ script = "free"

\* the first buyer recorded for a token: the feed's bookkeeping, not the engine's
Recorded(tokenAddress, buyerWallet, solAmount) ==
    IF /\ firstRecordedBuyer[tokenAddress] = NoWallet
       /\ quickFilterTransaction(solAmount).pass
    THEN [firstRecordedBuyer EXCEPT ![tokenAddress] = buyerWallet]
    ELSE firstRecordedBuyer

\* the feed emits one 'transaction' event, stamped with the current time;
\* timer callbacks that are due run before the events of the same instant
Transaction(tokenAddress, buyerWallet, solAmount) ==
    /\ ~scoreTickDue
    /\ ~cleanupDue
    /\ Becomes(processTransaction(EngineState, tokenAddress,
                                  Tx(now, buyerWallet, solAmount), now))
    /\ lastTxEventAt' = [lastTxEventAt EXCEPT ![tokenAddress] = now]
    /\ lastTx' = [tokenAddress |-> tokenAddress, tx |-> Tx(now, buyerWallet, solAmount)]
    /\ firstRecordedBuyer' = Recorded(tokenAddress, buyerWallet, solAmount)
    /\ UNCHANGED <<now, scoreTickDue, cleanupDue, burstsDone, script, call, timers>>

RECURSIVE crowd(_, _, _, _, _)
\* 'transaction' events lo..hi of one block, handled back to back, in order
crowd(st, tokenAddress, lo, hi, t) ==
    IF lo > hi THEN st
    ELSE IF lo = hi
    THEN processTransaction(st, tokenAddress, Tx(t, CrowdWallet(lo), CrowdAmount), t)
    ELSE LET mid == (lo + hi) \div 2
         \* the first half is evaluated before the second half starts
         IN  CHOOSE r \in {crowd(half, tokenAddress, mid + 1, hi, t) :
                              half \in {crowd(st, tokenAddress, lo, mid, t)}} : TRUE

\* the feed emits the buys of one block: CrowdSize wallets, one block time
CrowdBurst(tokenAddress) ==
    /\ ~scoreTickDue
    /\ ~cleanupDue
    /\ Becomes(crowd(EngineState, tokenAddress, 1, CrowdSize, now))
    /\ burstsDone' = burstsDone + 1
    /\ lastTxEventAt' = [lastTxEventAt EXCEPT ![tokenAddress] = now]
    /\ lastTx' = [tokenAddress |-> tokenAddress,
                  tx |-> Tx(now, CrowdWallet(CrowdSize), CrowdAmount)]
    /\ firstRecordedBuyer' = Recorded(tokenAddress, CrowdWallet(1), CrowdAmount)
    /\ UNCHANGED <<now, scoreTickDue, cleanupDue, script, call, timers>>

\* the setInterval callback of startScoreInterval
ScoreTick ==
    /\ scoreTickDue
    /\ Becomes(recalculateScores(EngineState, now))
    /\ scoreTickDue' = FALSE
    /\ UNCHANGED <<now, cleanupDue, burstsDone, lastTxEventAt, lastTx,
                   firstRecordedBuyer, script, call, timers>>

\* the setInterval callback of the TokenRegistry constructor
Cleanup ==
    /\ cleanupDue
    /\ Becomes(cleanup(EngineState, now))
    /\ cleanupDue' = FALSE
    /\ UNCHANGED <<now, scoreTickDue, burstsDone, lastTxEventAt, lastTx,
                   firstRecordedBuyer, script, call, timers>>

\* recalcIntervalMs pass; the timers that have elapsed become due
AdvanceClock ==
    /\ ~scoreTickDue
    /\ ~cleanupDue
    /\ now' = now + scoring_recalcIntervalMs
    /\ scoreTickDue' = timers.scoreInterval
    /\ cleanupDue' = /\ timers.cleanupInterval
                     /\ (now + scoring_recalcIntervalMs) % cleanupIntervalMs = 0
    /\ UNCHANGED <<engineVars, burstsDone, lastTxEventAt, lastTx,
                   firstRecordedBuyer, script, call, timers>>

-----------------------------------------------------------------------------
(* The engine under a free feed.  Time is counted from the token's first   *)
(* transaction; the crowd block arrives at BurstQuantum; the budgets bound  *)
(* the single transactions before the block, before the first entry and    *)
(* in all.                                                                 *)

singlesSent == processedTxCount - burstsDone * CrowdSize

FeedOpen ==
    /\ singlesSent < MaxTx
    /\ nextPositionId = 0 => singlesSent < MaxTxBeforeEntry
    /\ burstsDone = 0 => (now = 0 /\ singlesSent < MaxTxBeforeBurst)

BurstOpen(tokenAddress) ==
    /\ burstsDone < MaxBursts
    /\ now = BurstQuantum * scoring_recalcIntervalMs
    /\ tokenAddress \in DOMAIN trackers.map

Next ==
    \/ \E a \in Tokens, w \in Wallets, amt \in Amounts :
           FeedOpen /\ Transaction(a, w, amt)
    \/ \E a \in Tokens : BurstOpen(a) /\ CrowdBurst(a)
    \/ ScoreTick
    \/ Cleanup
    \/ now < MaxQuanta * scoring_recalcIntervalMs /\ AdvanceClock

Spec == Init /\ [][Next]_vars

-----------------------------------------------------------------------------
(* The engine under a scripted feed: the single transactions of a plan, in *)
(* order, each at its time; the crowd blocks at the times of bursts; then  *)
(* up to TailTx single transactions of any kind.                           *)

\* free single transactions after the plan
TailTx == 1

PlanTx(quantum, buyerWallet, solAmount) ==
    Tx(quantum * scoring_recalcIntervalMs, buyerWallet, solAmount)

PlannedSingleDue(plan) ==
    /\ singlesSent < Len(plan)
    /\ plan[singlesSent + 1].timestamp = now

PlannedBurstDue(bursts) ==
    /\ burstsDone < Len(bursts)
    /\ bursts[burstsDone + 1] * scoring_recalcIntervalMs = now

PlannedTransaction(plan) ==
    /\ PlannedSingleDue(plan)
    /\ \E a \in Tokens : Transaction(a, plan[singlesSent + 1].buyerWallet,
                                     plan[singlesSent + 1].solAmount)

PlannedBurst(bursts) ==
    /\ PlannedBurstDue(bursts)
    /\ \E a \in Tokens : CrowdBurst(a)

TailTransaction(plan, bursts) ==
    /\ singlesSent >= Len(plan)
    /\ singlesSent < Len(plan) + TailTx
    /\ burstsDone = Len(bursts)
    /\ \E a \in Tokens, w \in Wallets, amt \in Amounts : Transaction(a, w, amt)

PlannedAdvance(plan, bursts, maxQuanta) ==
    /\ ~PlannedSingleDue(plan)
    /\ ~PlannedBurstDue(bursts)
    /\ now < maxQuanta * scoring_recalcIntervalMs
    /\ AdvanceClock

\* "profit": entry at 120 s, then buys of 1.2 SOL every 10 s until 300 s (the
\* price passes +120 % once the crowd has left the 180 s window), then silence.
\* "reentry": entry at 120 s, silence, a second crowd at 190 s with buys at
\* 210 s and 220 s.
\* "longrun": a late entry (at 720 s, the token 12 minutes old), buys every
\* 10 s until 1220 s, the registry sweep of 1230 s (the token older than 20
\* minutes), then silence.
\* "revival": one buy at 0 s, the inactivity drop of the sweep at 300 s (one
\* buyer after 5 minutes), the sweep of 1230 s (the token older than 20
\* minutes), a buy at 1240 s, a crowd at 1330 s, buys at 1350 s and 1360 s.
\* "jump": entry at 120 s, then buys of 1.8 SOL every 10 s until 280 s (the
\* price passes +220 % at once when the crowd leaves the 180 s window).
\* "devbuy": entry at 120 s, then at 130 s the first buyer of the token buys
\* again, 1.2 SOL.
Scripts == {"profit", "reentry", "longrun", "revival", "jump", "devbuy"}

PlanSingles ==
    [s \in Scripts |->
        CASE s = "profit" ->
               <<PlanTx(0, 1, 50), PlanTx(11, 2, 50), PlanTx(12, 2, 50)>>
               \o [i \in 1..18 |-> PlanTx(12 + i, 2, 120)]
          [] s = "reentry" ->
               <<PlanTx(0, 1, 50), PlanTx(11, 2, 50), PlanTx(12, 2, 50),
                 PlanTx(21, 2, 50), PlanTx(22, 2, 50)>>
          [] s = "devbuy" ->
               <<PlanTx(0, 1, 50), PlanTx(11, 2, 50), PlanTx(12, 2, 50),
                 PlanTx(13, 1, 120)>>
          [] s = "longrun" ->
               <<PlanTx(0, 1, 50), PlanTx(1, 2, 50), PlanTx(71, 2, 50),
                 PlanTx(72, 2, 50)>>
               \o [i \in 1..50 |-> PlanTx(72 + i, 2, 50)]
          [] s = "revival" ->
               <<PlanTx(0, 1, 50), PlanTx(124, 1, 50), PlanTx(135, 2, 50),
                 PlanTx(136, 2, 50)>>
          [] s = "jump" ->
               <<PlanTx(0, 1, 50), PlanTx(11, 2, 50), PlanTx(12, 2, 50)>>
               \o [i \in 1..16 |-> PlanTx(12 + i, 2, 180)]]

PlanBursts ==
    [s \in Scripts |->
        CASE s = "profit" -> <<9>>
          [] s = "reentry" -> <<9, 19>>
          [] s = "longrun" -> <<69>>
          [] s = "revival" -> <<133>>
          [] s = "jump" -> <<9>>
          [] s = "devbuy" -> <<9>>]

\* clock quanta a scripted run lasts beyond its last planned transaction
TailQuanta == 10

PlanQuanta ==
    [s \in Scripts |->
        PlanSingles[s][Len(PlanSingles[s])].timestamp \div scoring_recalcIntervalMs
        + TailQuanta]

InitScripted == EngineInit /\ script \in Scripts

NextScripted ==
    \/ PlannedTransaction(PlanSingles[script])
    \/ PlannedBurst(PlanBursts[script])
    \/ TailTransaction(PlanSingles[script], PlanBursts[script])
    \/ ScoreTick
    \/ Cleanup
    \/ PlannedAdvance(PlanSingles[script], PlanBursts[script], PlanQuanta[script])

SpecScripted == InitScripted /\ [][NextScripted]_vars

-----------------------------------------------------------------------------
(* The components called directly.  The methods of TokenTracker,           *)
(* PositionManager and ExitEngine are public: besides the engine's own     *)
(* calls, a holder of the object calls them with a tracked token or an id  *)
(* handed out before, at the current price proxy.  The feed is the         *)
(* "profit" script; the direct calls start once its crowd block is in, and *)
(* a run is followed for MaxQuantaAfterCall clock quanta after a call.     *)

\* direct calls in one run
MaxCalls == 1
\* clock quanta a run lasts beyond its latest direct call
MaxQuantaAfterCall == 1

ExitReasons == {"profit_target_full", "no_activity_60s"}
DropReasons == {"insufficient_buyers_after_5m", "largest_buy_high"}

CallsOpen ==
    /\ call.seq < MaxCalls
    /\ burstsDone = Len(PlanBursts[script])

\* the call is recorded with the status its target had when it was made
Called(op, targetStatus, shouldPartialExit, shouldFullExit, returned) ==
    call' = [seq |-> call.seq + 1, op |-> op, at |-> now,
             targetStatus |-> targetStatus,
             shouldPartialExit |-> shouldPartialExit,
             shouldFullExit |-> shouldFullExit, returned |-> returned]

feedVars == <<now, scoreTickDue, cleanupDue, burstsDone, lastTxEventAt, lastTx,
              firstRecordedBuyer, script, timers>>

trackerStatus(tokenAddress) ==
    IF trackers.map[tokenAddress].dropped THEN "dropped" ELSE "active"

\* the price proxy the engine passes: the token's current average buy size
currentPriceOf(tokenAddress) ==
    calculateMetrics(trackers.map[tokenAddress], now).avgBuySize

\* tracker.addTransaction(tx)
CallAddTransaction(tokenAddress, buyerWallet, solAmount) ==
    /\ tokenAddress \in DOMAIN trackers.map
    /\ trackers' = [trackers EXCEPT !.map[tokenAddress] =
                       addTransaction(@, Tx(now, buyerWallet, solAmount), now)]
    /\ Called("addTransaction", trackerStatus(tokenAddress), FALSE, FALSE, Undefined)
    /\ UNCHANGED <<positions, closedPositions, tokenToPosition, exitStates,
                   killStates, nextPositionId, processedTxCount, eventLog, feedVars>>

\* tracker.drop(reason)
CallDrop(tokenAddress, reason) ==
    /\ tokenAddress \in DOMAIN trackers.map
    /\ Becomes(drop(EngineState, tokenAddress, reason))
    /\ Called("drop", trackerStatus(tokenAddress), FALSE, FALSE, Undefined)
    /\ UNCHANGED feedVars

\* exitEngine.evaluateExit(position, currentPrice, metrics, tracker)
CallEvaluateExit(positionId) ==
    LET position == positionObject(EngineState, positionId)
        tracker == trackers.map[position.tokenAddress]
        metrics == calculateMetrics(tracker, now)
        evaluation == evaluateExit(EngineState, positionId, metrics.avgBuySize,
                                   metrics, tracker, now)
    IN  /\ position.tokenAddress \in DOMAIN trackers.map
        /\ Becomes(evaluation.st)
        /\ Called("evaluateExit", position.status, evaluation.shouldPartialExit,
                  evaluation.shouldFullExit, Undefined)
        /\ UNCHANGED feedVars

\* positionManager.closePosition(positionId, currentPrice, reason)
CallClosePosition(positionId, reason) ==
    LET position == positionObject(EngineState, positionId)
    IN  /\ position.tokenAddress \in DOMAIN trackers.map
        /\ Becomes(closePosition(EngineState, positionId,
                                 currentPriceOf(position.tokenAddress), reason, now))
        /\ Called("closePosition", position.status, FALSE, FALSE, Undefined)
        /\ UNCHANGED feedVars

\* positionManager.executePartialExit(positionId, currentPrice)
CallExecutePartialExit(positionId) ==
    LET position == positionObject(EngineState, positionId)
    IN  /\ position.tokenAddress \in DOMAIN trackers.map
        /\ Becomes(executePartialExit(EngineState, positionId,
                                      currentPriceOf(position.tokenAddress), now))
        /\ Called("executePartialExit", position.status, FALSE, FALSE, Undefined)
        /\ UNCHANGED feedVars

\* positionManager.openPosition(tokenAddress, entryPrice, entryScore)
CallOpenPosition(tokenAddress) ==
    LET metrics == calculateMetrics(trackers.map[tokenAddress], now)
        opened == openPosition(EngineState, tokenAddress, metrics.avgBuySize,
                               calculateScore(metrics), now)
    IN  /\ tokenAddress \in DOMAIN trackers.map
        /\ Becomes(opened.st)
        /\ Called("openPosition",
                  IF hasOpenPosition(EngineState, tokenAddress) THEN "live" ELSE "none",
                  FALSE, FALSE, opened.id)
        /\ UNCHANGED feedVars

\* the feed and the timers go on, the clock up to the horizon of the latest call
FeedAndTimers ==
    /\ NextScripted
    /\ (call.seq > 0 /\ now' # now)
           => now' <= call.at + MaxQuantaAfterCall * scoring_recalcIntervalMs

InitCalls == EngineInit /\ script = "profit"

NextCalls ==
    \/ FeedAndTimers
    \/ \E a \in Tokens, w \in Wallets, amt \in Amounts :
           CallsOpen /\ CallAddTransaction(a, w, amt)
    \/ \E a \in Tokens, reason \in DropReasons : CallsOpen /\ CallDrop(a, reason)
    \/ \E id \in 1..nextPositionId : CallsOpen /\ CallEvaluateExit(id)
    \/ \E id \in 1..nextPositionId, reason \in ExitReasons :
           CallsOpen /\ CallClosePosition(id, reason)
    \/ \E id \in 1..nextPositionId : CallsOpen /\ CallExecutePartialExit(id)
    \/ \E a \in Tokens : CallsOpen /\ CallOpenPosition(a)

SpecCalls == InitCalls /\ [][NextCalls]_vars

-----------------------------------------------------------------------------
(* Properties                                                              *)

KillReasons == {"kill_switch_no_tx", "kill_switch_whale", "kill_switch_dev"}

PositionEventTypes ==
    {"position_opened", "position_partial_exit", "position_closed",
     "kill_switch_triggered"}

\* the position with this id, looked up in a live map and an archive
PositionIn(live, archive, id) ==
    IF id \in DOMAIN live
    THEN live[id]
    ELSE archive[CHOOSE i \in 1..Len(archive) : archive[i].id = id]

StatusRank(status) ==
    CASE status = "open" -> 1
      [] status = "partial" -> 2
      [] status = "closed" -> 3

\* the step is the score interval's callback
IsTickStep == scoreTickDue /\ ~scoreTickDue'

\* the step handles one 'transaction' event of tokenAddress
IsTxStep(tokenAddress) ==
    /\ processedTxCount' = processedTxCount + 1
    /\ lastTx'.tokenAddress = tokenAddress

\* the position is closed by the step, with one of these reasons
ClosedByStep(id, reasons) ==
    /\ id \notin DOMAIN positions'
    /\ \E i \in 1..Len(closedPositions') :
           /\ closedPositions'[i].id = id
           /\ closedPositions'[i].exitReason \in reasons

\* C1: every token has at most one live position; the live map holds only
\* positions that are not closed and the archive only closed ones.
OneLivePositionPerToken ==
    /\ \A id1 \in DOMAIN positions : \A id2 \in DOMAIN positions :
           positions[id1].tokenAddress = positions[id2].tokenAddress => id1 = id2
    /\ \A id \in DOMAIN positions : positions[id].status \in {"open", "partial"}
    /\ \A i \in 1..Len(closedPositions) : closedPositions[i].status = "closed"

\* C1 happens: a live position has seen a transaction event and a score tick
\* since it was opened, and is still the only one of its token.
LivePositionMonitored ==
    \E id \in DOMAIN positions :
        /\ lastTxEventAt[positions[id].tokenAddress] > positions[id].entryTimestamp
        /\ now > lastTxEventAt[positions[id].tokenAddress]
        /\ ~scoreTickDue

\* C2: once a position of a token is closed, no position is opened for that
\* token again.
NoReentryAfterClose ==
    \A i \in 1..Len(closedPositions) :
        \A id \in (1..nextPositionId) \ {closedPositions[i].id} :
            LET other == PositionIn(positions, closedPositions, id)
            IN  other.tokenAddress = closedPositions[i].tokenAddress
                    => other.entryTimestamp < closedPositions[i].exitTimestamp

\* C3: the status of a position never moves backwards: open, partial, closed.
StatusOnlyMovesForward ==
    [][\A id \in 1..nextPositionId :
           StatusRank(PositionIn(positions', closedPositions', id).status)
               >= StatusRank(PositionIn(positions, closedPositions, id).status)]_vars

\* C3 happens: a position went from open to partial to closed.
ClosedAfterPartialExit ==
    \E i \in 1..Len(closedPositions) :
        closedPositions[i].partialExitTimestamp # Undefined

\* C4: a live position whose token has had no transaction for 60 s is closed
\* by the score tick that follows: once that tick has run, it is not live.
InactivePositionClosedByTick ==
    \A id \in DOMAIN positions :
        now - lastTxEventAt[positions[id].tokenAddress] >= exit_noActivitySeconds * 1000
            => scoreTickDue

\* C5: a transaction above the whale threshold, from a wallet that is not the
\* developer's, for a token with a live position closes that position in the
\* same step with reason kill_switch_whale.
WhaleTransactionClosesPosition ==
    [][\A id \in DOMAIN positions :
           LET a == positions[id].tokenAddress
           IN  (/\ IsTxStep(a)
                /\ lastTx'.tx.solAmount > killSwitch_whaleBuyThreshold
                /\ a \in DOMAIN trackers.map
                /\ lastTx'.tx.buyerWallet # trackers.map[a].devWallet)
                   => ClosedByStep(id, {"kill_switch_whale"})]_vars

\* a kill-switch condition holds for the position in the cycle of this step
KillConditionHolds(id) ==
    LET a == positions[id].tokenAddress
    IN  \/ /\ IsTickStep
           /\ a \in DOMAIN trackers.map
           /\ now - trackers.map[a].lastTxTimestamp >= killSwitch_noTxSeconds * 1000
        \/ /\ IsTxStep(a)
           /\ quickFilterTransaction(lastTx'.tx.solAmount).pass
           /\ a \in DOMAIN trackers'.map
           /\ ~trackers'.map[a].dropped
           /\ \/ now - trackers'.map[a].lastTxTimestamp >= killSwitch_noTxSeconds * 1000
              \/ lastTx'.tx.solAmount > killSwitch_whaleBuyThreshold
              \/ /\ lastTx'.tx.buyerWallet = trackers'.map[a].devWallet
                 /\ trackers'.map[a].devBuyCount > 1

\* C6: in a cycle (a transaction event or a score tick) in which a kill-switch
\* condition holds for a live position, the position is closed with a
\* kill_switch_* reason and the exit engine has not run for it: no partial
\* exit, and its exit-tracking state is as it was.
KillSwitchPrecedesExit ==
    [][\A id \in DOMAIN positions :
           KillConditionHolds(id) =>
               /\ ClosedByStep(id, KillReasons)
               /\ PositionIn(positions', closedPositions', id).partialExitTimestamp
                      = positions[id].partialExitTimestamp
               /\ id \in DOMAIN exitStates' => /\ id \in DOMAIN exitStates
                                               /\ exitStates'[id] = exitStates[id]]_vars

\* C6 happens: a position was closed for 60 s without transactions, which is
\* also the exit engine's no-activity condition, with the kill switch's reason.
ClosedByKillSwitchNoTx ==
    \E i \in 1..Len(closedPositions) :
        /\ closedPositions[i].exitReason = "kill_switch_no_tx"
        /\ closedPositions[i].exitTimestamp - lastTxEventAt[closedPositions[i].tokenAddress]
               >= exit_noActivitySeconds * 1000

\* C7: the developer wallet of a tracked token is the buyer of the first
\* transaction recorded for the token.
DevWalletIsFirstRecordedBuyer ==
    \A a \in DOMAIN trackers.map :
        trackers.map[a].devWallet = firstRecordedBuyer[a]

\* C8: ExitEngine.exitStates and KillSwitch.states are keyed only by the ids of
\* live positions.
AuxiliaryStateOnlyForLive ==
    /\ DOMAIN exitStates \subseteq DOMAIN positions
    /\ DOMAIN killStates \subseteq DOMAIN positions

\* the events of a position, in the order they were emitted
PositionEvents(id) ==
    SelectSeq(eventLog, LAMBDA e : e.type \in PositionEventTypes /\ e.subject = id)

EventCount(id, type) ==
    LET events == PositionEvents(id)
    IN  Cardinality({k \in 1..Len(events) : events[k].type = type})

\* position_opened once, position_partial_exit at most once, position_closed
\* once when closed (with the reason), kill_switch_triggered once exactly when
\* closed by the kill switch
EventCountsExact(id) ==
    LET position == PositionIn(positions, closedPositions, id)
        events == PositionEvents(id)
        closed == position.status = "closed"
    IN  /\ EventCount(id, "position_opened") = 1
        /\ events[1].type = "position_opened"
        /\ EventCount(id, "position_partial_exit") <= 1
        /\ EventCount(id, "position_closed") = IF closed THEN 1 ELSE 0
        /\ EventCount(id, "kill_switch_triggered")
               = IF closed /\ position.exitReason \in KillReasons THEN 1 ELSE 0
        /\ \A k \in 1..Len(events) :
               events[k].type \in {"position_closed", "kill_switch_triggered"}
                   => events[k].reason = position.exitReason

\* C9, as stated: the events of a position are emitted once each, and none
\* after its position_closed.
NoEventAfterPositionClosed ==
    \A id \in 1..nextPositionId :
        /\ EventCountsExact(id)
        /\ \A k \in 1..Len(PositionEvents(id)) :
               PositionEvents(id)[k].type = "position_closed"
                   => k = Len(PositionEvents(id))

\* C9, amended: the events of a position are emitted once each, and the only
\* event after its position_closed is the kill_switch_triggered of the same
\* close.
PositionEventsOncePerTransition ==
    \A id \in 1..nextPositionId :
        /\ EventCountsExact(id)
        /\ \A k \in 1..Len(PositionEvents(id)) :
               PositionEvents(id)[k].type = "position_closed"
                   => \/ k = Len(PositionEvents(id))
                      \/ /\ k = Len(PositionEvents(id)) - 1
                         /\ PositionEvents(id)[k + 1].type = "kill_switch_triggered"

\* C9 happens: a position closed by the kill switch has its three events.
KillSwitchCloseLogged ==
    \E i \in 1..Len(closedPositions) :
        /\ closedPositions[i].exitReason \in KillReasons
        /\ Len(PositionEvents(closedPositions[i].id)) = 3

\* C10: a position is opened by a transaction event or a score tick only when
\* the token has no live position and is not dropped, the score is at least
\* minScore, the token is between 2 and 12 minutes old, the three signals
\* pass, and buyers5m x avgBuySize x 30 is within [minMarketCap, maxMarketCap].
EntryOnlyWhenEligible ==
    [][(nextPositionId' = nextPositionId + 1 /\ burstsDone' = burstsDone) =>
           LET position == PositionIn(positions', closedPositions', nextPositionId')
               a == position.tokenAddress
               tracker == trackers'.map[a]
               metrics == calculateMetrics(tracker, now)
               signals == evaluateSignals(metrics)
               age == now - tracker.firstSeenTimestamp
               valuationNum == metrics.buyers5m * metrics.avgBuySize[1]
                                   * marketCapMultiplier
               valuationDen == metrics.avgBuySize[2]
           IN  /\ \A id \in DOMAIN positions : positions[id].tokenAddress # a
               /\ ~tracker.dropped
               /\ position.entryScore = calculateScore(metrics)
               /\ position.entryScore >= entry_minScore
               /\ age >= entry_minTokenAgeMinutes * msPerMinute
               /\ age <= entry_maxTokenAgeMinutes * msPerMinute
               /\ signals.easPassed /\ signals.lsfPassed /\ signals.mcPassed
               /\ entry_minMarketCapSOL * valuationDen <= valuationNum
               /\ valuationNum <= entry_maxMarketCapSOL * valuationDen]_vars

\* C10 happens: a position was opened when its token was exactly 2 minutes old.
OpenedAtMinimumAge ==
    \E id \in DOMAIN positions :
        LET a == positions[id].tokenAddress
        IN  /\ a \in DOMAIN trackers.map
            /\ positions[id].entryTimestamp - trackers.map[a].firstSeenTimestamp
                   = entry_minTokenAgeMinutes * msPerMinute

\* the step is a direct call of this method
IsCall(op) == call'.seq = call.seq + 1 /\ call'.op = op

\* the events the step emits
EmittedByStep == SubSeq(eventLog', Len(eventLog) + 1, Len(eventLog'))

\* C11: a dropped tracker is frozen: while it stays in the registry no step,
\* whether an addTransaction, a drop(reason) or any handler of the engine,
\* changes its transactions, unique buyers, last-activity time, developer
\* count, metrics, dropped flag or drop reason, and no token_dropped event is
\* emitted for it again.
DroppedTrackerIsFrozen ==
    [][\A a \in DOMAIN trackers.map \cap DOMAIN trackers'.map :
           trackers.map[a].dropped =>
               /\ trackers'.map[a] = trackers.map[a]
               /\ (IsCall("addTransaction") \/ IsCall("drop"))
                      => calculateMetrics(trackers'.map[a], now)
                             = calculateMetrics(trackers.map[a], now)
               /\ \A k \in 1..Len(EmittedByStep) :
                      EmittedByStep[k].type = "token_dropped"
                          => EmittedByStep[k].subject # a]_vars

\* C11 happens: drop(reason) was called on a tracker that was dropped already.
DropCalledOnDroppedTracker ==
    call.op = "drop" /\ call.targetStatus = "dropped"

\* index of the first event of this type and subject in the log, 0 if none
FirstEvent(type, subject) ==
    LET found == {k \in 1..Len(eventLog) :
                     eventLog[k].type = type /\ eventLog[k].subject = subject}
    IN  IF found = {} THEN 0 ELSE CHOOSE k \in found : \A j \in found : k <= j

\* C12: a dropped token stays dropped: no position is opened for a token
\* after a token_dropped event for it.
NoPositionAfterDrop ==
    \A id \in 1..nextPositionId :
        LET dropped == FirstEvent("token_dropped",
                           PositionIn(positions, closedPositions, id).tokenAddress)
        IN  dropped = 0 \/ FirstEvent("position_opened", id) < dropped

\* number of events of this type and subject in the log
EventsOf(type, subject) ==
    Cardinality({k \in 1..Len(eventLog) :
                    eventLog[k].type = type /\ eventLog[k].subject = subject})

\* C13: token_new is emitted for a token on its first recorded transaction
\* and never again.
TokenNewOnce ==
    \A a \in Tokens :
        EventsOf("token_new", a) = IF firstRecordedBuyer[a] = NoWallet THEN 0 ELSE 1

\* C14: evaluateExit called with a closed position changes no state (position
\* fields, exit-tracking map) and reports neither a partial nor a full exit.
EvaluateExitOnClosedIsNoOp ==
    [][(IsCall("evaluateExit") /\ call'.targetStatus = "closed") =>
           /\ UNCHANGED <<positions, closedPositions, exitStates>>
           /\ ~call'.shouldPartialExit
           /\ ~call'.shouldFullExit]_vars

\* C15: closePosition and executePartialExit on a closed position, and
\* openPosition for a token with a live position, change no position, archive
\* nothing and emit nothing; openPosition returns the live position.
DoubleCloseAndDoubleEntryAreNoOps ==
    [][/\ ((IsCall("closePosition") \/ IsCall("executePartialExit"))
              /\ call'.targetStatus = "closed")
           => UNCHANGED <<positions, closedPositions, tokenToPosition,
                          nextPositionId, eventLog>>
       /\ (IsCall("openPosition") /\ call'.targetStatus = "live")
           => /\ UNCHANGED <<positions, closedPositions, tokenToPosition,
                             nextPositionId, eventLog>>
              /\ call'.returned \in DOMAIN positions
              /\ \E a \in DOMAIN tokenToPosition :
                     tokenToPosition[a] = call'.returned]_vars

\* C15 happens: closePosition was called on a position closed before.
CloseCalledOnClosedPosition ==
    /\ call.op = "closePosition"
    /\ call.targetStatus = "closed"
    /\ closedPositions # <<>>

\* the step handles a 'transaction' event of the token up to the monitoring or
\* entry evaluation: the quick filter passes and the tracker is not dropped
HandledTxStep(tokenAddress) ==
    /\ IsTxStep(tokenAddress)
    /\ quickFilterTransaction(lastTx'.tx.solAmount).pass
    /\ tokenAddress \in DOMAIN trackers'.map
    /\ ~trackers'.map[tokenAddress].dropped

\* percent change of the price proxy against the entry price
PnlPercent(position, currentPrice) ==
    RatMul(RatDiv(RatSub(currentPrice, position.entryPrice), position.entryPrice),
           RatInt(100))

\* a full-exit trigger of the exit engine other than the profit target holds
\* for the position at these metrics: inactivity, a second consecutive
\* decrease of txCount60s, or stagnation after a spike
OtherFullExitTrigger(id, tracker, metrics) ==
    LET state == exitStates[id]
        spike == /\ metrics.txCount60s > state.lastTxCount60s
                 /\ 2 * metrics.txCount60s > 3 * state.lastTxCount60s
        postSpike == IF spike THEN metrics.txCount60s ELSE state.postSpikeTxCount
    IN  \/ now - tracker.lastTxTimestamp >= exit_noActivitySeconds * 1000
        \/ /\ metrics.txCount60s < state.lastTxCount60s
           /\ state.consecutiveTxDecreases + 1 >= exit_txDecreaseThreshold
        \/ /\ state.spikeDetected \/ spike
           /\ postSpike # 0
           /\ 2 * metrics.txCount60s < postSpike

\* the position is open and its profit is at or above the partial threshold
\* and below the full threshold, at these metrics
InPartialProfitRange(id, metrics) ==
    /\ positions[id].status = "open"
    /\ RatLeq(RatInt(exit_partialProfitPercent),
              PnlPercent(positions[id], metrics.avgBuySize))
    /\ RatLt(PnlPercent(positions[id], metrics.avgBuySize),
             RatInt(exit_fullProfitPercent))

\* the partial exit of the position has happened in the step, at this price
PartialExitDone(id, currentPrice) ==
    LET position == positions[id]
        exitAmount == RatMul(RatInt(position.positionSizeSOL),
                             Rat(exit_partialExitPercent, 100))
    IN  /\ id \in DOMAIN positions'
        /\ positions'[id].status = "partial"
        /\ positions'[id].remainingSizeSOL
               = RatSub(RatInt(position.positionSizeSOL), exitAmount)
        /\ positions'[id].realizedPnL
               = RatAdd(position.realizedPnL,
                        RatMul(exitAmount,
                               RatDiv(RatSub(currentPrice, position.entryPrice),
                                      position.entryPrice)))

\* C16: on a transaction event, an open position whose profit is at least the
\* partial threshold and below the full threshold, with no kill-switch and no
\* other full-exit trigger holding, has 50 % of its nominal size liquidated,
\* that portion's PnL realized, and is left in status partial.
PartialExitOnTransaction ==
    [][\A id \in DOMAIN positions :
           LET a == positions[id].tokenAddress
               metrics == calculateMetrics(trackers'.map[a], now)
           IN  (/\ HandledTxStep(a)
                /\ id \in DOMAIN exitStates
                /\ InPartialProfitRange(id, metrics)
                /\ ~KillConditionHolds(id)
                /\ ~OtherFullExitTrigger(id, trackers'.map[a], metrics))
                   => PartialExitDone(id, metrics.avgBuySize)]_vars

\* C16 happens: a live position is in status partial, half its size left.
PartiallyExitedPosition ==
    \E id \in DOMAIN positions :
        /\ positions[id].status = "partial"
        /\ positions[id].remainingSizeSOL
               = RatMul(RatInt(positions[id].positionSizeSOL),
                        Rat(100 - exit_partialExitPercent, 100))

\* C17: on a score tick, an open position whose profit is at or above the
\* partial threshold, with no kill-switch condition holding, has its partial
\* exit executed in that tick.
PartialExitOnTick ==
    [][\A id \in DOMAIN positions :
           LET a == positions[id].tokenAddress
           IN  (/\ IsTickStep
                /\ a \in DOMAIN trackers.map
                /\ id \in DOMAIN exitStates
                /\ positions[id].status = "open"
                /\ RatLeq(RatInt(exit_partialProfitPercent),
                          PnlPercent(positions[id],
                                     calculateMetrics(trackers.map[a], now).avgBuySize))
                /\ ~KillConditionHolds(id))
                   => PositionIn(positions', closedPositions', id).partialExitTimestamp
                          = now]_vars

-----------------------------------------------------------------------------
(* The engine shut down.  The feed is the "profit" script; stop() is       *)
(* called at any moment of the run, and the clock runs on for              *)
(* MaxQuantaAfterStop quanta after it.  The status interval of             *)
(* startStatusPrinting only logs, so its callback changes no engine state. *)

\* clock quanta a run is followed after stop()
MaxQuantaAfterStop == 3

\* SignalEngine.stop: clears the score interval and the registry's cleanup
\* interval (callbacks still pending are cancelled with them), disconnects
\* the feed; the handle of the status interval was never kept
Stop ==
    /\ timers.isRunning
    /\ timers' = [timers EXCEPT !.isRunning = FALSE, !.scoreInterval = FALSE,
                                !.cleanupInterval = FALSE, !.stoppedAt = now]
    /\ scoreTickDue' = FALSE
    /\ cleanupDue' = FALSE
    /\ UNCHANGED <<engineVars, now, burstsDone, lastTxEventAt, lastTx,
                   firstRecordedBuyer, script, call>>

\* the setInterval callback of startStatusPrinting: printStatus
StatusTick ==
    /\ timers.statusInterval
    /\ now % statusIntervalMs = 0
    /\ timers.lastStatusAt < now
    /\ timers' = [timers EXCEPT !.lastStatusAt = now]
    /\ UNCHANGED <<engineVars, now, scoreTickDue, cleanupDue, burstsDone,
                   lastTxEventAt, lastTx, firstRecordedBuyer, script, call>>

\* time passes after stop()
AdvanceClockStopped ==
    /\ ~timers.isRunning
    /\ now < timers.stoppedAt + MaxQuantaAfterStop * scoring_recalcIntervalMs
    /\ AdvanceClock

InitShutdown == EngineInit /\ script = "profit"

NextShutdown ==
    \/ timers.isRunning /\ PlannedTransaction(PlanSingles[script])
    \/ timers.isRunning /\ PlannedBurst(PlanBursts[script])
    \/ timers.isRunning /\ TailTransaction(PlanSingles[script], PlanBursts[script])
    \/ ScoreTick
    \/ Cleanup
    \/ timers.isRunning
          /\ PlannedAdvance(PlanSingles[script], PlanBursts[script], PlanQuanta[script])
    \/ StatusTick
    \/ Stop
    \/ AdvanceClockStopped

SpecShutdown == InitShutdown /\ [][NextShutdown]_vars

-----------------------------------------------------------------------------
(* The feed delivering out of order.  SolanaWebSocket.processLogNotification *)
(* awaits parseTransaction before it emits, and a transaction carries the   *)
(* time of its block: the event of an earlier block can be emitted after    *)
(* the event of a later one.  Here one such event follows a transaction of  *)
(* the current instant, in the "profit" script.                             *)

\* how far behind the late event's block time is
LateDelaysMs == {windows_short, windows_medium}

\* the feed emits the 'transaction' event of an earlier block
LateTransaction(tokenAddress, buyerWallet, solAmount, delayMs) ==
    /\ ~scoreTickDue
    /\ ~cleanupDue
    /\ call.seq = 0
    /\ lastTxEventAt[tokenAddress] = now
    /\ lastTx.tokenAddress = tokenAddress
    /\ now >= delayMs
    /\ Becomes(processTransaction(EngineState, tokenAddress,
                                  Tx(now - delayMs, buyerWallet, solAmount), now))
    /\ lastTx' = [tokenAddress |-> tokenAddress,
                  tx |-> Tx(now - delayMs, buyerWallet, solAmount)]
    /\ firstRecordedBuyer' = Recorded(tokenAddress, buyerWallet, solAmount)
    /\ call' = [NoCall EXCEPT !.seq = 1, !.op = "lateTransaction", !.at = now]
    /\ UNCHANGED <<now, scoreTickDue, cleanupDue, burstsDone, lastTxEventAt,
                   script, timers>>

InitOutOfOrder == EngineInit /\ script = "profit"

NextOutOfOrder ==
    \/ PlannedTransaction(PlanSingles[script])
    \/ PlannedBurst(PlanBursts[script])
    \/ TailTransaction(PlanSingles[script], PlanBursts[script])
    \/ ScoreTick
    \/ Cleanup
    \/ PlannedAdvance(PlanSingles[script], PlanBursts[script], PlanQuanta[script])
    \/ \E a \in Tokens, delayMs \in LateDelaysMs :
           LateTransaction(a, lastTx.tx.buyerWallet, lastTx.tx.solAmount, delayMs)

SpecOutOfOrder == InitOutOfOrder /\ [][NextOutOfOrder]_vars

-----------------------------------------------------------------------------

(* start() and stop() called in any order.  start() tests isRunning, awaits *)
(* the feed connection, and only then subscribes its 'transaction' handler, *)
(* arms the score and status intervals and sets isRunning.  stop() clears   *)
(* the score interval whose handle it holds and the registry's cleanup      *)
(* interval and disconnects the feed.  A log notification received while    *)
(* the feed is connected is parsed asynchronously and emitted afterwards,   *)
(* to every subscribed handler.  call.seq counts the steps.                 *)

\* start(), stop(), notifications and emissions of one run
MaxLifecycleSteps == 8

\* new SignalEngine(): not running, nothing subscribed, no start() awaiting;
\* the TokenRegistry constructor has armed its cleanup interval
Constructed ==
    [isRunning |-> FALSE, scoreInterval |-> FALSE, cleanupInterval |-> TRUE,
     statusInterval |-> FALSE, lastStatusAt |-> 0, stoppedAt |-> Undefined,
     connecting |-> 0, wsConnected |-> FALSE, inFlight |-> 0,
     transactionHandlers |-> 0, scoreTimers |-> 0]

LifecycleOpen == call.seq < MaxLifecycleSteps

LifecycleStep(op) == call' = [NoCall EXCEPT !.seq = call.seq + 1, !.op = op]

\* start() up to its await: returns when running, else opens the connection
StartEngine ==
    /\ LifecycleOpen
    /\ timers' = IF timers.isRunning
                 THEN timers
                 ELSE [timers EXCEPT !.connecting = @ + 1]
    /\ LifecycleStep("start")
    /\ UNCHANGED <<engineVars, now, scoreTickDue, cleanupDue, burstsDone,
                   lastTxEventAt, lastTx, firstRecordedBuyer, script>>

\* the connection of one start() opens and the rest of start() runs
Connected ==
    /\ LifecycleOpen
    /\ timers.connecting > 0
    /\ timers' = [timers EXCEPT !.connecting = @ - 1,
                                !.wsConnected = TRUE,
                                !.transactionHandlers = @ + 1,
                                !.scoreTimers = @ + 1,
                                !.scoreInterval = TRUE,
                                !.isRunning = TRUE,
                                !.statusInterval = TRUE]
    /\ LifecycleStep("connected")
    /\ UNCHANGED <<engineVars, now, scoreTickDue, cleanupDue, burstsDone,
                   lastTxEventAt, lastTx, firstRecordedBuyer, script>>

\* stop()
StopEngine ==
    /\ LifecycleOpen
    /\ timers' = IF ~timers.isRunning
                 THEN timers
                 ELSE [timers EXCEPT !.scoreTimers = IF timers.scoreInterval
                                                     THEN @ - 1 ELSE @,
                                     !.scoreInterval = FALSE,
                                     !.cleanupInterval = FALSE,
                                     !.wsConnected = FALSE,
                                     !.isRunning = FALSE,
                                     !.stoppedAt = now]
    /\ LifecycleStep("stop")
    /\ UNCHANGED <<engineVars, now, scoreTickDue, cleanupDue, burstsDone,
                   lastTxEventAt, lastTx, firstRecordedBuyer, script>>

\* the feed receives a log notification and starts parsing it
ReceiveLog ==
    /\ LifecycleOpen
    /\ timers.wsConnected
    /\ timers' = [timers EXCEPT !.inFlight = @ + 1]
    /\ LifecycleStep("receive")
    /\ UNCHANGED <<engineVars, now, scoreTickDue, cleanupDue, burstsDone,
                   lastTxEventAt, lastTx, firstRecordedBuyer, script>>

RECURSIVE handled(_, _, _, _, _)
\* EventEmitter.emit: each of the n subscribed handlers runs processTransaction
handled(st, n, tokenAddress, tx, t) ==
    IF n = 0 THEN st
    ELSE handled(processTransaction(st, tokenAddress, tx, t), n - 1,
                 tokenAddress, tx, t)

\* a parsed notification is emitted as one 'transaction' event
EmitTransaction(tokenAddress, buyerWallet, solAmount) ==
    /\ LifecycleOpen
    /\ timers.inFlight > 0
    /\ timers' = [timers EXCEPT !.inFlight = @ - 1]
    /\ Becomes(handled(EngineState, timers.transactionHandlers, tokenAddress,
                       Tx(now, buyerWallet, solAmount), now))
    /\ lastTx' = [tokenAddress |-> tokenAddress, tx |-> Tx(now, buyerWallet, solAmount)]
    /\ LifecycleStep("emit")
    /\ UNCHANGED <<now, scoreTickDue, cleanupDue, burstsDone, lastTxEventAt,
                   firstRecordedBuyer, script>>

InitLifecycle ==
    /\ now = 0
    /\ trackers = [map |-> EmptyMap, order |-> <<>>]
    /\ positions = EmptyMap
    /\ closedPositions = <<>>
    /\ tokenToPosition = EmptyMap
    /\ exitStates = EmptyMap
    /\ killStates = EmptyMap
    /\ nextPositionId = 0
    /\ processedTxCount = 0
    /\ eventLog = <<>>
    /\ scoreTickDue = FALSE
    /\ cleanupDue = FALSE
    /\ burstsDone = 0
    /\ lastTxEventAt = [a \in Tokens |-> Undefined]
    /\ lastTx = [tokenAddress |-> "", tx |-> NoTx]
    /\ firstRecordedBuyer = [a \in Tokens |-> NoWallet]
    /\ script = "lifecycle"
    /\ call = NoCall
    /\ timers = Constructed

NextLifecycle ==
    \/ StartEngine
    \/ Connected
    \/ StopEngine
    \/ ReceiveLog
    \/ \E a \in Tokens, w \in Wallets, amt \in Amounts : EmitTransaction(a, w, amt)

SpecLifecycle == InitLifecycle /\ [][NextLifecycle]_vars

-----------------------------------------------------------------------------

(* The exit engine observing a position.  A position is entered as         *)
(* tryEntry enters it, at some 60-second transaction count; then           *)
(* evaluateExit and executeExit are called as monitorPosition calls them,  *)
(* each time after the earlier transactions have left the 60-second window *)
(* and some number of new ones have arrived.  Every buy has the same size, *)
(* so the price proxy stays at the entry price.  The counts observed so    *)
(* far are kept in call.observations.                                      *)

\* evaluations of one position
MaxObservations == 3
\* the largest 60-second transaction count observed
MaxObserved == 6
ObservedCounts == 1..MaxObserved
\* time between two evaluations: the earlier transactions leave the window
ObservationGapMs == windows_medium + scoring_recalcIntervalMs

RECURSIVE arrivals(_, _, _)
\* the tracker after n more transactions, at time t
arrivals(tracker, n, t) ==
    IF n = 0 THEN tracker
    ELSE addTransaction(arrivals(tracker, n - 1, t), Tx(t, n, CrowdAmount), t)

\* the token's first transactions arrive and the position is opened, as in
\* tryEntry
Enter(count) ==
    LET tracker == arrivals(NewTokenTracker("T1", Tx(now, 1, CrowdAmount), now),
                            count - 1, now)
        metrics == calculateMetrics(tracker, now)
        st == [EngineState EXCEPT !.trackers = MapSet(EmptyMap, "T1", tracker),
                                  !.trackerOrder = <<"T1">>]
        opened == openPosition(st, "T1", calculateEntryPrice(metrics),
                               calculateScore(metrics), now)
        st1 == ExitEngine_initPosition(opened.st, opened.id, metrics.txCount60s)
    IN  /\ nextPositionId = 0
        /\ Becomes(KillSwitch_initPosition(st1, opened.id, now))
        /\ call' = [seq |-> 0, op |-> "initPosition", at |-> now,
                    observations |-> <<metrics.txCount60s>>,
                    state |-> st1.exitStates[opened.id],
                    shouldFullExit |-> FALSE, returned |-> ""]
        /\ UNCHANGED feedVars

\* count transactions arrive; evaluateExit, then executeExit as in
\* monitorPosition
Observe(positionId, count) ==
    LET t == now + ObservationGapMs
        tracker == arrivals(trackers.map["T1"], count, t)
        metrics == calculateMetrics(tracker, t)
        st == [EngineState EXCEPT !.trackers["T1"] = tracker]
        exitEval == evaluateExit(st, positionId, metrics.avgBuySize, metrics,
                                 tracker, t)
    IN  /\ positionId \in DOMAIN positions
        /\ call.seq < MaxObservations
        /\ Becomes(IF exitEval.shouldPartialExit \/ exitEval.shouldFullExit
                   THEN executeExit(exitEval.st, positionId, metrics.avgBuySize,
                                    exitEval, t)
                   ELSE exitEval.st)
        /\ call' = [seq |-> call.seq + 1, op |-> "evaluateExit", at |-> t,
                    observations |-> Append(call.observations, metrics.txCount60s),
                    state |-> exitEval.st.exitStates[positionId],
                    shouldFullExit |-> exitEval.shouldFullExit,
                    returned |-> exitEval.reason]
        /\ now' = t
        /\ UNCHANGED <<scoreTickDue, cleanupDue, burstsDone, lastTxEventAt, lastTx,
                       firstRecordedBuyer, script, timers>>

InitExitEngine == EngineInit /\ script = "exit"

NextExitEngine ==
    \/ \E count \in ObservedCounts : Enter(count)
    \/ \E id \in DOMAIN positions, count \in ObservedCounts : Observe(id, count)

SpecExitEngine == InitExitEngine /\ [][NextExitEngine]_vars

-----------------------------------------------------------------------------
(* The pure functions, applied to inputs drawn from bounded sets: the      *)
(* window count of a MultiWindowBuffer, the score of a metrics record, and *)
(* the signals and score of a token after a run of transactions.           *)

\* transactions stored in a buffer under test
MaxStored == 3
\* timestamps (ms) of the stored transactions: around the cutoffs
StoredStamps == {0, 119999, 120000, 120001, 240000}
\* evaluation times (ms)
EvaluationTimes == {180000, 300000}
WindowSizes == {windows_short, windows_medium, windows_long}

\* the ascending sequences of at most MaxStored of these timestamps
StampSequences ==
    {SortedSeq(S) : S \in {T \in SUBSET StoredStamps : Cardinality(T) <= MaxStored}}

RECURSIVE stored(_, _)
\* the buffer after add() of a transaction at each of the first n timestamps
stored(stamps, n) ==
    IF n = 0 THEN <<>>
    ELSE add(stored(stamps, n - 1), Tx(stamps[n], 1, CrowdAmount), stamps[n])

\* buffer.countWindow(windowMs) at time t
ApplyCountWindow(stamps, windowMs, t) ==
    /\ call' = [seq |-> call.seq + 1, op |-> "countWindow", at |-> t,
                transactions |-> stored(stamps, Len(stamps)),
                windowMs |-> windowMs,
                returned |-> countWindow(stored(stamps, Len(stamps)), windowMs, t)]
    /\ UNCHANGED <<engineVars, feedVars>>

\* metric inputs of calculateScore
ScoreInputs ==
    [buyers5m : 0..3, txAcceleration : {-5, -1, 0, 2}, repeatBuyers : 0..2,
     largestBuy : {50, 100, 101}, txCount60s : {0, 1}]

\* calculateScore(tokenAddress, metrics).score
ApplyCalculateScore(metrics) ==
    /\ call' = [seq |-> call.seq + 1, op |-> "calculateScore", at |-> now,
                metrics |-> metrics, returned |-> calculateScore(metrics)]
    /\ UNCHANGED <<engineVars, feedVars>>

\* the buyers of the signal scenario: one transaction each
ScenarioWallets == 1..10
ScenarioTxs == Cardinality(ScenarioWallets)
\* gaps (ms) between consecutive transactions of the scenario
GapPool == {14500, 14000, 13500, 13000, 12500, 12300, 12200, 12100, 12000, 5000, 1000}
\* the strictly shrinking gap sequences: ScenarioTxs - 1 gaps of the pool,
\* largest first; the longest run lasts 116.1 s
GapSequences ==
    {[i \in 1..(ScenarioTxs - 1) |-> SortedSeq(S)[ScenarioTxs - i]] :
        S \in {T \in SUBSET GapPool : Cardinality(T) = ScenarioTxs - 1}}
\* buy sizes (1/100 SOL) of the scenario, repeated in turn: 0.1 to 0.2 SOL
AmountPatterns == {<<10>>, <<20>>, <<10, 20>>, <<10, 15, 20>>}

\* the i-th transaction of the scenario, the first one at time 0
ScenarioTx(gaps, amounts, i) ==
    Tx(SumFrom(gaps, 1, i - 1), i, amounts[((i - 1) % Len(amounts)) + 1])

RECURSIVE scenarioTracker(_, _, _)
\* the tracker after the first n transactions, each recorded at its time
scenarioTracker(gaps, amounts, n) ==
    LET tx == ScenarioTx(gaps, amounts, n)
    IN  IF n = 1
        THEN NewTokenTracker("T1", tx, tx.timestamp)
        ELSE addTransaction(scenarioTracker(gaps, amounts, n - 1), tx, tx.timestamp)

\* calculateMetrics at the time of the last transaction, then evaluateSignals
\* and calculateScore
ApplySignalScenario(gaps, amounts) ==
    LET t == ScenarioTx(gaps, amounts, ScenarioTxs).timestamp
        metrics == calculateMetrics(scenarioTracker(gaps, amounts, ScenarioTxs), t)
    IN  /\ call' = [seq |-> call.seq + 1, op |-> "signalScenario", at |-> t,
                    metrics |-> metrics, signals |-> evaluateSignals(metrics),
                    returned |-> calculateScore(metrics)]
        /\ UNCHANGED <<engineVars, feedVars>>

\* TokenTracker.recordMetadataEdit
recordMetadataEdit(tracker) == [tracker EXCEPT !.metadataEditCount = @ + 1]

\* most transactions and metadata edits of a token under the filter stage
MaxFilterTxs == 2
MaxFilterEdits == 2
\* buy sizes (1/100 SOL) around the thresholds of the filter stage
FilterAmounts == {2, 3, 81, 200, 250}
\* the first buyer of the token and another one
FilterWallets == {1, 2}
\* ms between the transactions of a token under the filter stage
FilterGapMs == 1000
FilterScenarios ==
    UNION {[1..n -> FilterAmounts \X FilterWallets] : n \in 1..MaxFilterTxs}

RECURSIVE filterTracker(_, _)
\* the tracker after the first n transactions, each recorded at its time
filterTracker(txs, n) ==
    LET tx == Tx((n - 1) * FilterGapMs, txs[n][2], txs[n][1])
    IN  IF n = 1
        THEN NewTokenTracker("T1", tx, tx.timestamp)
        ELSE addTransaction(filterTracker(txs, n - 1), tx, tx.timestamp)

RECURSIVE edited(_, _)
\* the tracker after n calls of recordMetadataEdit
edited(tracker, n) ==
    IF n = 0 THEN tracker ELSE recordMetadataEdit(edited(tracker, n - 1))

\* evaluateFilters on the tracker's metrics at the time of its last
\* transaction, and evaluateForEntry of the same tracker
ApplyFilterScenario(txs, edits) ==
    LET t == (Len(txs) - 1) * FilterGapMs
        tracker == edited(filterTracker(txs, Len(txs)), edits)
        metrics == calculateMetrics(tracker, t)
        st == [EngineState EXCEPT !.trackers = MapSet(EmptyMap, "T1", tracker),
                                  !.trackerOrder = <<"T1">>]
        after == evaluateForEntry(st, "T1", t)
    IN  /\ call' = [seq |-> call.seq + 1, op |-> "evaluateFilters", at |-> t,
                    metrics |-> metrics,
                    devBuyCount |-> tracker.devBuyCount,
                    metadataEditCount |-> tracker.metadataEditCount,
                    filterResult |-> evaluateFilters(tracker, metrics),
                    tracker |-> after.trackers["T1"],
                    events |-> after.eventLog,
                    returned |-> Undefined]
        /\ UNCHANGED <<engineVars, feedVars>>

\* one function is applied to one input in each behaviour
\* metric inputs of evaluateSignals: at and next to each threshold
SignalInputs ==
    [buyers5m : {5, 6},
     txIntervalMean : {Rat(19999, 1000), RatInt(20), Infinity},
     txAcceleration : {-1, 0, 1},
     avgBuySize : {Rat(499, 100), RatInt(5), RatInt(50), Rat(5001, 100)},
     buySizeStdSq : {RatInt(899), RatInt(900)},
     largestBuy : {200, 201},
     txCount60s : {4, 5},
     txIntervalDelta : BOOLEAN]

\* evaluateSignals(metrics)
ApplyEvaluateSignals(metrics) ==
    /\ call' = [seq |-> call.seq + 1, op |-> "evaluateSignals", at |-> now,
                metrics |-> metrics, signals |-> evaluateSignals(metrics),
                returned |-> Undefined]
    /\ UNCHANGED <<engineVars, feedVars>>

\* timestamps (ms) of the transactions of a token with few of them
SparseStamps == {0, 119999, 120000, 130000, 135000}
SparseSequences ==
    {SortedSeq(S) : S \in {T \in SUBSET SparseStamps :
                              Cardinality(T) \in 1..MaxStored}}
\* times (ms) at which the token's metrics are computed
MetricTimes == {180000, 195000, 300000, 420000}

RECURSIVE sparseTracker(_, _)
\* the tracker after a transaction at each of the first n timestamps
sparseTracker(stamps, n) ==
    LET tx == Tx(stamps[n], n, CrowdAmount)
    IN  IF n = 1
        THEN NewTokenTracker("T1", tx, tx.timestamp)
        ELSE addTransaction(sparseTracker(stamps, n - 1), tx, tx.timestamp)

\* a faulty variant: the query evicts the entries older than the retention
afterCalculateMetrics_evicting(tracker, t) ==
    [tracker EXCEPT !.transactions = evictOld(@, t)]

\* the tracker as tracker.calculateMetrics() leaves it: the queries of the
\* buffer filter and copy, none of them assigns a field
afterCalculateMetrics(tracker, t) == tracker

\* tracker.calculateMetrics() at time t, then evaluateSignals, and
\* calculateMetrics() once more at the same time
ApplyCalculateMetrics(stamps, t) ==
    LET tracker == sparseTracker(stamps, Len(stamps))
        metrics == calculateMetrics(tracker, t)
        after == afterCalculateMetrics(tracker, t)
    IN  /\ call' = [seq |-> call.seq + 1, op |-> "calculateMetrics", at |-> t,
                    transactions |-> tracker.transactions,
                    metrics |-> metrics, signals |-> evaluateSignals(metrics),
                    tracker |-> tracker, trackerAfter |-> after,
                    again |-> calculateMetrics(after, t),
                    returned |-> Undefined]
        /\ UNCHANGED <<engineVars, feedVars>>

\* time between two add() calls of a buffer under test
AddIntervalMs == windows_buyers \div 2
\* timestamps (ms) of the transactions added: the feed stamps a transaction
\* with its block time, which may lie before the time of the add
AddStamps == {0, AddIntervalMs - 1, AddIntervalMs, 2 * AddIntervalMs, 3 * AddIntervalMs}
AddSequences == UNION {[1..n -> AddStamps] : n \in 1..MaxStored}

RECURSIVE added(_, _)
\* the buffer after the first n add() calls, the k-th at time k * AddIntervalMs
added(stamps, n) ==
    IF n = 0 THEN <<>>
    ELSE add(added(stamps, n - 1), Tx(stamps[n], n, CrowdAmount), n * AddIntervalMs)

\* buffer.add(tx): the last of the adds
ApplyAdd(stamps) ==
    LET n == Len(stamps)
    IN  /\ call' = [seq |-> call.seq + 1, op |-> "add", at |-> n * AddIntervalMs,
                    before |-> added(stamps, n - 1),
                    tx |-> Tx(stamps[n], n, CrowdAmount),
                    transactions |-> added(stamps, n),
                    returned |-> Undefined]
        /\ UNCHANGED <<engineVars, feedVars>>

FunctionsOpen == call.seq = 0

InitFunctions == EngineInit /\ script = "functions"

NextFunctions ==
    \/ \E stamps \in StampSequences, w \in WindowSizes, t \in EvaluationTimes :
           FunctionsOpen /\ ApplyCountWindow(stamps, w, t)
    \/ \E metrics \in ScoreInputs : FunctionsOpen /\ ApplyCalculateScore(metrics)
    \/ \E gaps \in GapSequences, amounts \in AmountPatterns :
           FunctionsOpen /\ ApplySignalScenario(gaps, amounts)
    \/ \E txs \in FilterScenarios, edits \in 0..MaxFilterEdits :
           FunctionsOpen /\ ApplyFilterScenario(txs, edits)
    \/ \E metrics \in SignalInputs : FunctionsOpen /\ ApplyEvaluateSignals(metrics)
    \/ \E stamps \in SparseSequences, t \in MetricTimes :
           FunctionsOpen /\ ApplyCalculateMetrics(stamps, t)
    \/ \E stamps \in AddSequences : FunctionsOpen /\ ApplyAdd(stamps)

SpecFunctions == InitFunctions /\ [][NextFunctions]_vars

\* C18: countWindow(w) at time t counts exactly the stored transactions with
\* timestamp >= t - w: the one at exactly t - w is counted, none older is.
CountWindowBoundary ==
    call.op = "countWindow" =>
        call.returned
            = Cardinality({i \in 1..Len(call.transactions) :
                              call.transactions[i].timestamp >= call.at - call.windowMs})

\* C18 happens: a stored transaction at exactly t - w has been counted.
CountedAtBoundary ==
    /\ call.op = "countWindow"
    /\ call.returned > 0
    /\ \E i \in 1..Len(call.transactions) :
           call.transactions[i].timestamp = call.at - call.windowMs
    /\ \E i \in 1..Len(call.transactions) :
           call.transactions[i].timestamp < call.at - call.windowMs

\* the weighted sum of calculateScore, before clamping
RawScore(metrics) ==
    metrics.buyers5m * 2 + metrics.txAcceleration * 3 + metrics.repeatBuyers * 2
    - (IF metrics.largestBuy > 100 THEN 5 ELSE 0)
    - (IF metrics.txCount60s = 0 THEN 10 ELSE 0)

\* C19: calculateScore returns max(0, buyers5m*2 + txAcceleration*3 +
\* repeatBuyers*2 - (largestBuy > 1.0 ? 5 : 0) - (txCount60s = 0 ? 10 : 0)),
\* so the score is never negative.
ScoreIsClampedSum ==
    call.op = "calculateScore" =>
        /\ call.returned >= 0
        /\ call.returned = IF RawScore(call.metrics) > 0
                           THEN RawScore(call.metrics) ELSE 0

\* C19 happens: a negative weighted sum has been scored 0.
NegativeSumScoredZero ==
    /\ call.op = "calculateScore"
    /\ RawScore(call.metrics) < 0
    /\ call.returned = 0

\* C20, as stated: after 10 transactions of 0.1-0.2 SOL from 10 distinct
\* buyers within 2 minutes with strictly shrinking gaps, evaluateSignals
\* reports all three conditions passed and the score is at least 18.
ScenarioPassesAllSignals ==
    call.op = "signalScenario" =>
        /\ call.signals.allPassed
        /\ call.returned >= entry_minScore

\* C20, amended: after such a run the liquidity-shape and momentum conditions
\* pass and the score is at least 18; the early-attention condition, and with
\* it allPassed, holds exactly when more transactions fall in the last 60 s
\* than in the 60 s before (txAcceleration > 0).
ScenarioPassesWhenAccelerating ==
    call.op = "signalScenario" =>
        /\ call.signals.lsfPassed
        /\ call.signals.mcPassed
        /\ call.returned >= entry_minScore
        /\ call.signals.easPassed <=> call.metrics.txAcceleration > 0
        /\ call.signals.allPassed <=> call.metrics.txAcceleration > 0

\* C20 happens: a scenario run has passed all three conditions with score 18+.
ScenarioPassed ==
    /\ call.op = "signalScenario"
    /\ call.signals.allPassed
    /\ call.returned >= entry_minScore

\* the six conditions of the filter stage that hold for a call of
\* evaluateFilters
FailingConditions ==
    (IF call.metrics.largestBuy > 200 THEN {"largest_buy"} ELSE {})
    \cup (IF RatLt(RatInt(80), call.metrics.avgBuySize)
          THEN {"avg_buy_size_high"} ELSE {})
    \cup (IF RatLt(RatInt(0), call.metrics.avgBuySize)
             /\ RatLt(call.metrics.avgBuySize, RatInt(3))
          THEN {"avg_buy_size_low"} ELSE {})
    \cup (IF RatLt(RatInt(50 * 50), call.metrics.buySizeStdSq)
          THEN {"buy_size_std"} ELSE {})
    \cup (IF call.devBuyCount > 1 THEN {"dev_wallet"} ELSE {})
    \cup (IF call.metadataEditCount > 1 THEN {"metadata_edited"} ELSE {})

\* C21: evaluateFilters passes exactly when none of the six conditions holds
\* (largestBuy > 2.0, avgBuySize > 0.8, 0 < avgBuySize < 0.03, buySizeStd >
\* 0.5, devBuyCount > 1, metadataEditCount > 1); on failure the reason lists
\* every failing condition; a token whose largest buy is 2.5 fails with a
\* reason containing "largest_buy", and evaluateForEntry drops it with the
\* reason of evaluateFilters.
FilterFailsOnEveryCondition ==
    call.op = "evaluateFilters" =>
        /\ call.filterResult.passed <=> FailingConditions = {}
        /\ ~call.filterResult.passed =>
              /\ call.filterResult.reason = FailingConditions
              /\ call.tracker.dropped
              /\ call.tracker.dropReason = call.filterResult.reason
              /\ call.events
                    = <<[type |-> "token_dropped", subject |-> "T1",
                         reason |-> call.filterResult.reason]>>
        /\ call.filterResult.passed => ~call.tracker.dropped
        /\ call.metrics.largestBuy = 250 =>
              /\ ~call.filterResult.passed
              /\ "largest_buy" \in call.filterResult.reason

\* C21 happens: a token whose largest buy is 2.5 has been dropped for that
\* and for another failing condition.
DroppedForLargestBuyAndMore ==
    /\ call.op = "evaluateFilters"
    /\ call.metrics.largestBuy = 250
    /\ call.tracker.dropped
    /\ "largest_buy" \in call.tracker.dropReason
    /\ Cardinality(call.tracker.dropReason) >= 3

\* the profit percentage evaluateExit observes for the position in the step,
\* in the tracker as monitorPosition or checkStalePositions reads it
ObservedPnL(id, tracker) ==
    PnlPercent(positions[id], calculateMetrics(tracker, now).avgBuySize)

\* C22: maxUnrealizedPnL of a position is 0 when it is opened, never falls
\* while the position is open or partial, and after an evaluateExit (on a
\* handled transaction of its token or on a score tick, the kill switch not
\* closing the position first) it is at least the profit percentage observed
\* in that evaluation.
MaxUnrealizedPnLNeverFalls ==
    [][/\ \A id \in DOMAIN positions :
              LET a == positions[id].tokenAddress
                  after == PositionIn(positions', closedPositions', id)
              IN  /\ RatLeq(positions[id].maxUnrealizedPnL, after.maxUnrealizedPnL)
                  /\ (/\ HandledTxStep(a)
                      /\ id \in DOMAIN exitStates
                      /\ ~ClosedByStep(id, KillReasons))
                         => RatLeq(ObservedPnL(id, trackers'.map[a]),
                                   after.maxUnrealizedPnL)
                  /\ (/\ IsTickStep
                      /\ a \in DOMAIN trackers.map
                      /\ id \in DOMAIN exitStates
                      /\ ~ClosedByStep(id, KillReasons))
                         => RatLeq(ObservedPnL(id, trackers.map[a]),
                                   after.maxUnrealizedPnL)
       /\ \A id \in DOMAIN positions' \ DOMAIN positions :
              /\ RatLeq(RatInt(0), positions'[id].maxUnrealizedPnL)
              /\ (\E a \in Tokens : IsTxStep(a))
                     => positions'[id].maxUnrealizedPnL = RatInt(0)]_vars

\* C22 happens: a live position has recorded a gain and the price has fallen
\* below that peak since.
PeakAboveCurrentPnL ==
    \E id \in DOMAIN positions :
        LET a == positions[id].tokenAddress
        IN  /\ a \in DOMAIN trackers.map
            /\ RatLt(RatInt(0), positions[id].maxUnrealizedPnL)
            /\ RatLt(PnlPercent(positions[id], currentPriceOf(a)),
                     positions[id].maxUnrealizedPnL)

\* C23: after stop() has returned, no periodic timer of the engine or of its
\* registry fires again: no score tick, no registry sweep, no status report.
NoTimerFiresAfterStop ==
    [][~timers.isRunning =>
          /\ ~IsTickStep
          /\ ~(cleanupDue /\ ~cleanupDue')
          /\ timers'.lastStatusAt = timers.lastStatusAt]_vars

\* after stop(), the score interval and the registry sweep never fire again
\* and none of their callbacks stays pending
ScoreAndCleanupCancelled ==
    ~timers.isRunning => ~scoreTickDue /\ ~cleanupDue

\* a status report has been printed after stop()
StatusPrintedAfterStop ==
    /\ ~timers.isRunning
    /\ timers.lastStatusAt > timers.stoppedAt

\* one evaluation of the open position yields both the partial-exit condition
\* and a full-exit trigger, the kill switch not closing the position first
BothExitsDue(id, tracker, metrics) ==
    /\ positions[id].status = "open"
    /\ id \in DOMAIN exitStates
    /\ ~KillConditionHolds(id)
    /\ RatLeq(RatInt(exit_partialProfitPercent),
              PnlPercent(positions[id], metrics.avgBuySize))
    /\ \/ RatLeq(RatInt(exit_fullProfitPercent),
                 PnlPercent(positions[id], metrics.avgBuySize))
       \/ OtherFullExitTrigger(id, tracker, metrics)

\* the step has liquidated the fixed fraction of the position at this price,
\* then closed the remainder at the same price
PartialThenClosed(id, currentPrice) ==
    LET position == positions[id]
        after == PositionIn(positions', closedPositions', id)
        priceChange == RatDiv(RatSub(currentPrice, position.entryPrice),
                              position.entryPrice)
        emitted == SubSeq(eventLog', Len(eventLog) + 1, Len(eventLog'))
        ofPosition == SelectSeq(emitted, LAMBDA e : /\ e.type \in PositionEventTypes
                                                    /\ e.subject = id)
    IN  /\ id \notin DOMAIN positions'
        /\ after.status = "closed"
        /\ after.remainingSizeSOL = RatInt(0)
        /\ after.partialExitTimestamp = now
        /\ after.partialExitPrice = currentPrice
        /\ after.exitPrice = currentPrice
        /\ after.realizedPnL
              = RatAdd(position.realizedPnL,
                       RatMul(RatInt(position.positionSizeSOL), priceChange))
        /\ Len(ofPosition) = 2
        /\ ofPosition[1].type = "position_partial_exit"
        /\ ofPosition[2].type = "position_closed"
        /\ ofPosition[2].reason = after.exitReason

\* C24: when one evaluation of an open position (on a handled transaction of
\* its token or on a score tick) yields both the partial-exit condition and a
\* full-exit trigger, the partial exit is executed first and the remainder is
\* closed after it: position_partial_exit is emitted, then position_closed;
\* the position ends closed with remaining size 0 and the realized PnL of its
\* whole nominal size at the price change.
PartialExitThenFullExit ==
    [][\A id \in DOMAIN positions :
           LET a == positions[id].tokenAddress
           IN  /\ (/\ HandledTxStep(a)
                   /\ BothExitsDue(id, trackers'.map[a],
                                   calculateMetrics(trackers'.map[a], now)))
                      => PartialThenClosed(
                             id, calculateMetrics(trackers'.map[a], now).avgBuySize)
               /\ (/\ IsTickStep
                   /\ a \in DOMAIN trackers.map
                   /\ BothExitsDue(id, trackers.map[a],
                                   calculateMetrics(trackers.map[a], now)))
                      => PartialThenClosed(
                             id, calculateMetrics(trackers.map[a], now).avgBuySize)]_vars

\* C24 happens: a position has been partially exited and closed at the same
\* instant for the full profit target, the whole nominal size realized.
ClosedWithPartialAtOnce ==
    \E i \in 1..Len(closedPositions) :
        LET position == closedPositions[i]
        IN  /\ position.partialExitTimestamp = position.exitTimestamp
            /\ position.exitReason = "profit_target_full"
            /\ position.realizedPnL
                  = RatMul(RatInt(position.positionSizeSOL),
                           priceChangeOf(position, position.exitPrice))

\* C25: evaluateExit returns tx_decrease_twice only when the count observed
\* is strictly lower than the one observed before it and that one strictly
\* lower than the one before; an increase resets the counter to zero.
TxDecreaseTwiceNeedsConsecutiveDecreases ==
    call.op = "evaluateExit" =>
        LET o == call.observations
            k == Len(o)
        IN  /\ call.returned = "tx_decrease_twice"
                  => /\ k >= 3
                     /\ o[k] < o[k - 1]
                     /\ o[k - 1] < o[k - 2]
            /\ o[k] > o[k - 1] => call.state.consecutiveTxDecreases = 0

\* C26: an observation that is an increase to at least 1.5 times the count
\* observed before it records the spike marker and the post-spike count.
SpikeRecordedAtOneAndAHalfTimes ==
    call.op = "evaluateExit" =>
        LET o == call.observations
            k == Len(o)
        IN  (o[k] > o[k - 1] /\ 2 * o[k] >= 3 * o[k - 1])
                => /\ call.state.spikeDetected
                   /\ call.state.postSpikeTxCount = o[k]

\* the observations at which evaluateExit has recorded a spike
SpikesRecorded(o) == {j \in 2..Len(o) : 2 * o[j] > 3 * o[j - 1]}

\* C27: once a spike has been recorded, an observation below half of the
\* highest count observed since the latest spike yields a full exit with
\* reason stagnation_after_spike.
StagnationBelowHalfOfPostSpikePeak ==
    call.op = "evaluateExit" =>
        LET o == call.observations
            k == Len(o)
            spikes == SpikesRecorded(SubSeq(o, 1, k - 1))
            latest == CHOOSE j \in spikes : \A i \in spikes : i <= j
        IN  (/\ spikes # {}
             /\ \E j \in latest..(k - 1) : 2 * o[k] < o[j])
                => /\ call.shouldFullExit
                   /\ call.returned = "stagnation_after_spike"

\* C28: evaluateSignals reports easPassed exactly when buyers5m >= 6, the mean
\* interval is below 20 s and txAcceleration > 0; lsfPassed exactly when
\* 0.05 <= avgBuySize <= 0.5, buySizeStd < 0.3 and largestBuy <= 2.0; mcPassed
\* exactly when txCount60s >= 5 and the interval-accelerating flag is true;
\* allPassed exactly when all three hold.  The result is a function of the
\* metrics alone.
SignalsAreConjunctionsOfSubChecks ==
    call.op = "evaluateSignals" =>
        LET m == call.metrics
            attention == /\ m.buyers5m >= 6
                         /\ m.txIntervalMean # Infinity
                         /\ m.txIntervalMean[1] < 20 * m.txIntervalMean[2]
                         /\ m.txAcceleration > 0
            shape == /\ 5 * m.avgBuySize[2] <= m.avgBuySize[1]
                     /\ m.avgBuySize[1] <= 50 * m.avgBuySize[2]
                     /\ m.buySizeStdSq[1] < 30 * 30 * m.buySizeStdSq[2]
                     /\ m.largestBuy <= 200
            momentum == m.txCount60s >= 5 /\ m.txIntervalDelta
        IN  /\ call.signals.easPassed <=> attention
            /\ call.signals.lsfPassed <=> shape
            /\ call.signals.mcPassed <=> momentum
            /\ call.signals.allPassed <=> (attention /\ shape /\ momentum)

\* C28 happens: metrics at the thresholds (6 buyers, average buy 0.05 SOL,
\* largest buy 2.0 SOL, 5 transactions in 60 s) have passed all conditions.
SignalsPassedAtThresholds ==
    /\ call.op = "evaluateSignals"
    /\ call.signals.allPassed
    /\ call.metrics.buyers5m = 6
    /\ call.metrics.avgBuySize = RatInt(5)
    /\ call.metrics.largestBuy = 200
    /\ call.metrics.txCount60s = 5

\* the stored transactions of the call within windowMs of its time
InWindowOfCall(windowMs) ==
    {i \in 1..Len(call.transactions) :
        call.transactions[i].timestamp >= call.at - windowMs}

\* C29: with fewer than 2 transactions in the 60 s window the mean interval
\* is unbounded and the attention condition fails; with fewer than 3 the
\* accelerating flag is false and the momentum condition fails; with none in
\* the 180 s window average, standard deviation and largest buy are 0 and the
\* liquidity-shape condition fails; so with fewer than 3 transactions in the
\* last 60 s allPassed is false.
InsufficientDataFailsSignals ==
    call.op = "calculateMetrics" =>
        LET m == call.metrics
            n60 == Cardinality(InWindowOfCall(60000))
            n180 == Cardinality(InWindowOfCall(180000))
        IN  /\ n60 < 2 => m.txIntervalMean = Infinity /\ ~call.signals.easPassed
            /\ n60 < 3 => ~m.txIntervalDelta /\ ~call.signals.mcPassed
            /\ n180 = 0 => /\ m.avgBuySize = RatInt(0)
                           /\ m.buySizeStdSq = RatInt(0)
                           /\ m.largestBuy = 0
                           /\ ~call.signals.lsfPassed
            /\ n60 < 3 => ~call.signals.allPassed

\* C29 happens: metrics have been computed with no transaction in the 180 s
\* window.
MetricsOfEmptyWindows ==
    /\ call.op = "calculateMetrics"
    /\ InWindowOfCall(180000) = {}
    /\ call.metrics.txIntervalMean = Infinity
    /\ ~call.signals.allPassed

\* C30: immediately after add(tx) at time t, every stored transaction has a
\* timestamp >= t - 5 minutes, in whatever order the timestamps arrived: the
\* stored transactions are those held before that are not older, in their
\* order, followed by tx unless tx itself is older.
OnlyRetainedAfterAdd ==
    call.op = "add" =>
        LET cutoff == call.at - 5 * 60 * 1000
            kept == {i \in 1..Len(call.before) : call.before[i].timestamp >= cutoff}
            after == call.transactions
        IN  /\ \A i \in 1..Len(after) : after[i].timestamp >= cutoff
            /\ \A i \in kept : \E j \in 1..Len(after) : after[j] = call.before[i]
            /\ Len(after) = Cardinality(kept)
                               + (IF call.tx.timestamp >= cutoff THEN 1 ELSE 0)
            /\ call.tx.timestamp >= cutoff => after[Len(after)] = call.tx
            /\ call.tx.timestamp < cutoff
                  => \A i \in 1..Len(after) : after[i] # call.tx

\* C30 happens: an add() has evicted a transaction stored behind a newer one
\* that stays, and has not retained its own transaction, older than 5 minutes.
OutOfOrderEntryEvicted ==
    /\ call.op = "add"
    /\ call.tx.timestamp < call.at - windows_buyers
    /\ Len(call.transactions) = 1
    /\ \E i, j \in 1..Len(call.before) :
           /\ i < j
           /\ call.before[j].timestamp < call.at - windows_buyers
           /\ call.before[i] = call.transactions[1]

IsCleanupStep == cleanupDue /\ ~cleanupDue'

\* C32: a run of TokenRegistry.cleanup removes exactly the trackers older than
\* 20 minutes; of the others it drops, with reason
\* insufficient_buyers_after_5m, exactly those not yet dropped that are at
\* least 5 minutes old with fewer than 2 unique buyers, and leaves the rest as
\* they were.
CleanupRemovesExpiredDropsInactive ==
    [][IsCleanupStep =>
           /\ DOMAIN trackers'.map =
                  {a \in DOMAIN trackers.map :
                       now - trackers.map[a].firstSeenTimestamp
                           <= maxTokenAgeMinutes * msPerMinute}
           /\ \A a \in DOMAIN trackers'.map :
                  LET old == trackers.map[a]
                      inactive ==
                          /\ ~old.dropped
                          /\ now - old.firstSeenTimestamp
                                 >= inactivityDropMinutes * msPerMinute
                          /\ Cardinality(old.uniqueBuyers) < minBuyersAfter5Min
                      droppedNow ==
                          \E k \in 1..Len(EmittedByStep) :
                              /\ EmittedByStep[k].type = "token_dropped"
                              /\ EmittedByStep[k].subject = a
                  IN  IF inactive
                      THEN /\ trackers'.map[a] =
                                  [old EXCEPT !.dropped = TRUE,
                                              !.dropReason =
                                                  "insufficient_buyers_after_5m"]
                           /\ droppedNow
                      ELSE /\ trackers'.map[a] = old
                           /\ ~droppedNow]_vars

\* C32 happens: the sweep has dropped a token for inactivity, kept it at the
\* age of 20 minutes and removed it afterwards.
SweptAfterInactivityDrop ==
    /\ script = "revival"
    /\ \E k \in 1..Len(eventLog) :
           /\ eventLog[k].type = "token_dropped"
           /\ \A j \in 1..(k - 1) : eventLog[j].type # "token_dropped"
           /\ eventLog[k].reason = "insufficient_buyers_after_5m"
    /\ now > maxTokenAgeMinutes * msPerMinute
    /\ ~cleanupDue
    /\ DOMAIN trackers.map = {}

\* C33: the token of every live (open or partial) position has a tracker in
\* the registry, so that checkStalePositions evaluates the position on every
\* tick.
LivePositionHasTracker ==
    \A id \in DOMAIN positions :
        positions[id].tokenAddress \in DOMAIN trackers.map

\* C34: whatever the order of arrival, a tracker's last-activity timestamp is
\* no older than any transaction it holds and never decreases, and a position
\* is closed with kill_switch_no_tx only when no transaction held for its
\* token is younger than noTxSeconds.
LastActivityIsLatestRecorded ==
    [][/\ \A a \in DOMAIN trackers'.map :
              \A i \in 1..Len(trackers'.map[a].transactions) :
                  trackers'.map[a].transactions[i].timestamp
                      <= trackers'.map[a].lastTxTimestamp
       /\ \A a \in DOMAIN trackers.map \cap DOMAIN trackers'.map :
              trackers'.map[a].lastTxTimestamp >= trackers.map[a].lastTxTimestamp
       /\ \A id \in DOMAIN positions :
              LET a == positions[id].tokenAddress
              IN  (ClosedByStep(id, {"kill_switch_no_tx"}) /\ a \in DOMAIN trackers'.map)
                      => \A i \in 1..Len(trackers'.map[a].transactions) :
                             now - trackers'.map[a].transactions[i].timestamp
                                 >= killSwitch_noTxSeconds * 1000]_vars

WindowsAreDisjoint ==
    call.op = "calculateMetrics" =>
        LET txs == call.transactions
            last120s == {i \in 1..Len(txs) :
                             txs[i].timestamp >= call.at - prevWindowStartMsAgo}
        IN  /\ call.metrics.txCount60s + call.metrics.txCountPrev60s
                   = Cardinality(last120s)
            /\ call.metrics.txAcceleration
                   = call.metrics.txCount60s - call.metrics.txCountPrev60s

\* C37: the tracker of a token with a live (open or partial) position is never
\* dropped: neither the filter stage nor the inactivity sweep drops it.
LivePositionNeverDropped ==
    \A id \in DOMAIN positions :
        positions[id].tokenAddress \in DOMAIN trackers.map
            => ~trackers.map[positions[id].tokenAddress].dropped

\* C37 happens: a token already older than the inactivity age, whose price
\* proxy has left the filter's range, has a live position, and a score tick
\* and a registry sweep have run since the position's last transaction.
LivePositionPastFilterAndSweep ==
    \E id \in DOMAIN positions :
        LET a == positions[id].tokenAddress
        IN  /\ a \in DOMAIN trackers.map
            /\ ~trackers.map[a].dropped
            /\ ~evaluateFilters(trackers.map[a],
                                calculateMetrics(trackers.map[a], now)).passed
            /\ shouldDropInactivity(
                   [trackers.map[a] EXCEPT !.uniqueBuyers = {}], now)
            /\ now % cleanupIntervalMs = 0
            /\ now > trackers.map[a].lastTxTimestamp
            /\ ~scoreTickDue
            /\ ~cleanupDue

\* C38: every position, live or archived, has 0 <= remainingSize <= nominal
\* size: the nominal size while open, the nominal size less the partial
\* fraction while partial, and 0 once closed; its partial fraction has been
\* liquidated at most once.
RemainingSizeFollowsStatus ==
    \A id \in 1..nextPositionId :
        LET position == PositionIn(positions, closedPositions, id)
            nominal == RatInt(position.positionSizeSOL)
            afterPartial == RatSub(nominal,
                                   RatMul(nominal, Rat(exit_partialExitPercent, 100)))
        IN  /\ RatLeq(RatInt(0), position.remainingSizeSOL)
            /\ RatLeq(position.remainingSizeSOL, nominal)
            /\ position.status = "open" => position.remainingSizeSOL = nominal
            /\ position.status = "partial" => position.remainingSizeSOL = afterPartial
            /\ position.status = "closed" => position.remainingSizeSOL = RatInt(0)
            /\ EventCount(id, "position_partial_exit")
                   = IF position.partialExitTimestamp = Undefined THEN 0 ELSE 1

\* C38 happens: a position partially exited earlier has since been through a
\* transaction event and a score tick and holds the rest of its size.
PartialPositionHoldsTheRest ==
    \E id \in DOMAIN positions :
        /\ positions[id].status = "partial"
        /\ RatLt(RatInt(0), positions[id].remainingSizeSOL)
        /\ RatLt(positions[id].remainingSizeSOL, RatInt(positions[id].positionSizeSOL))
        /\ lastTxEventAt[positions[id].tokenAddress] > positions[id].partialExitTimestamp
        /\ now > lastTxEventAt[positions[id].tokenAddress]
        /\ ~scoreTickDue

\* C39: the maxUnrealizedPnL of a closed position, whether the exit engine or
\* the kill switch closed it, is at least the percentage gain at its exit
\* price.
MaxPnLCoversExitGain ==
    \A i \in 1..Len(closedPositions) :
        RatLeq(PnlPercent(closedPositions[i], closedPositions[i].exitPrice),
               closedPositions[i].maxUnrealizedPnL)

\* C40: under any interleaving of start() and stop() at most one
\* 'transaction' handler and one score timer are active, and an emitted
\* transaction event raises processedTxCount by exactly 1 while the engine
\* runs and by 0 after stop().
EachEventProcessedOnce ==
    [][/\ timers'.transactionHandlers <= 1
       /\ timers'.scoreTimers <= 1
       /\ IsCall("emit") =>
              processedTxCount' = processedTxCount
                                      + (IF timers.isRunning THEN 1 ELSE 0)]_vars

====
